---- MODULE Spec2Model ----
(***************************************************************************)
(* Model of the ypbank_parser crate: the binary, CSV and text codecs of    *)
(* a Transaction list (src/src/bin_format.rs, csv_format.rs,               *)
(* text_format.rs).                                                        *)
(*                                                                         *)
(* A Rust String is modelled as a sequence of one-character strings, a     *)
(* byte stream as a sequence of 0..255.  Integers of the model stay below  *)
(* 2^31; a u32 read from the wire is kept as two 16-bit halves so that the *)
(* u32 addition of read_tx keeps its width.                                *)
(***************************************************************************)
EXTENDS Integers, Sequences, FiniteSets, TLC

VARIABLES
    transactions,   \* the slice handed to dump_as_*
    input,          \* the whole source handed to parse_from_*
    reader,         \* what is left of the source (bytes, or lines)
    header,         \* bin: record_size of the Header just read; csv: header fields
    current_tx,     \* text: TxWrapper.parsed_fields of parse_lines
    result,         \* the Vec<Transaction> the parser is building
    ret,            \* what the call returned ([kind |-> "None"] while it runs)
    overflow_checks,\* build profile: TRUE = debug (arithmetic overflow panics)
    pc              \* position of the run

vars == <<transactions, input, reader, header, current_tx, result, ret,
          overflow_checks, pc>>

(***************************************************************************)
(* Bounds                                                                  *)
(***************************************************************************)
MaxTxs == 2        \* longest transaction list that is dumped
MaxRecs == 2       \* most wire records in a hand-made binary source

(***************************************************************************)
(* Generic helpers                                                         *)
(***************************************************************************)
RECURSIVE Concat(_)
Concat(ss) == IF ss = <<>> THEN <<>> ELSE Head(ss) \o Concat(Tail(ss))

SeqsUpTo(S, n) == UNION { [1..k -> S] : k \in 0..n }

Take(s, n) == SubSeq(s, 1, n)
Drop(s, n) == SubSeq(s, n + 1, Len(s))

NoRet == [kind |-> "None"]
Ok == [kind |-> "Ok"]
IOError(m) == [kind |-> "IOError", msg |-> m]
\* an InvalidFormat whose message is m followed by the formatted value a
InvalidFormatWith(m, a) == [kind |-> "InvalidFormat", msg |-> m, arg |-> a]
InvalidFormat(m) == InvalidFormatWith(m, <<>>)
Panic(m) == [kind |-> "Panic", msg |-> m]

(***************************************************************************)
(* types.rs                                                                *)
(***************************************************************************)
TxType == {"Unknown", "Deposit", "Transfer", "Withdrawal"}
TxStatus == {"Unknown", "Success", "Failure", "Pending"}

\* `tx.r#type as u8`: the discriminant, in declaration order
TxTypeAsU8(t) ==
    CASE t = "Unknown" -> 0 [] t = "Deposit" -> 1
      [] t = "Transfer" -> 2 [] t = "Withdrawal" -> 3

TxStatusAsU8(s) ==
    CASE s = "Unknown" -> 0 [] s = "Success" -> 1
      [] s = "Failure" -> 2 [] s = "Pending" -> 3

Transaction(id, type, from_user, to_user, amount, timestamp, status, description) ==
    [id |-> id, type |-> type, from_user |-> from_user, to_user |-> to_user,
     amount |-> amount, timestamp |-> timestamp, status |-> status,
     description |-> description]

(***************************************************************************)
(* Characters and bytes.  The descriptions of the model are ASCII, so a    *)
(* char is one byte; 255 stands for a byte no UTF-8 text contains.         *)
(***************************************************************************)
AsciiTable ==
    [c \in {"a", "b", " ", ",", "\"", ":"} |->
        CASE c = "a" -> 97 [] c = "b" -> 98 [] c = " " -> 32
          [] c = "," -> 44 [] c = "\"" -> 34 [] c = ":" -> 58]

\* str::as_bytes
as_bytes(s) == [i \in 1..Len(s) |-> AsciiTable[s[i]]]

\* String::from_utf8: FALSE when the bytes are not UTF-8
Utf8Valid(bytes) == \A i \in 1..Len(bytes) : bytes[i] < 128

from_utf8(bytes) ==
    [i \in 1..Len(bytes) |->
        CHOOSE c \in DOMAIN AsciiTable : AsciiTable[c] = bytes[i]]

(***************************************************************************)
(* bin_format.rs                                                           *)
(***************************************************************************)
MAGIC == <<89, 80, 66, 78>>
MIN_RECORD_SIZE == 46

\* uN::to_be_bytes, n bytes
RECURSIVE to_be_bytes(_, _)
to_be_bytes(v, n) ==
    IF n = 0 THEN <<>> ELSE to_be_bytes(v \div 256, n - 1) \o <<v % 256>>

\* u64::from_be_bytes
RECURSIVE u64_from_be_bytes(_)
u64_from_be_bytes(b) ==
    IF b = <<>> THEN 0
    ELSE u64_from_be_bytes(Take(b, Len(b) - 1)) * 256 + b[Len(b)]

\* u32::from_be_bytes, as the halves hi * 2^16 + lo
u32_from_be_bytes(b) == [hi |-> b[1] * 256 + b[2], lo |-> b[3] * 256 + b[4]]

U32(n) == [hi |-> n \div 65536, lo |-> n % 65536]

\* u32 `<` against a small constant
U32Less(x, n) == x.hi = 0 /\ x.lo < n

\* `v as usize` exceeds a length that is below 2^16
U32Exceeds(x, len) == x.hi > 0 \/ x.lo > len

\* u32 `MIN_RECORD_SIZE + desc_len`: [overflow |-> TRUE] when the sum leaves u32
U32Add(n, x) ==
    LET lo == x.lo + n
        hi == x.hi + (lo \div 65536)
    IN  IF hi > 65535
        THEN [overflow |-> TRUE, val |-> [hi |-> hi - 65536, lo |-> lo % 65536]]
        ELSE [overflow |-> FALSE, val |-> [hi |-> hi, lo |-> lo % 65536]]

\* Read::read_exact on what is left of a source: n bytes or UnexpectedEof
read_exact(r, n) ==
    IF Len(r) >= n
    THEN [kind |-> "Ok", buf |-> Take(r, n), rest |-> Drop(r, n)]
    ELSE [kind |-> "UnexpectedEof", buf |-> <<>>, rest |-> <<>>]

\* read_tx_type with a last arm that yields the default variant
read_tx_type_Default(b) ==
    CASE b = 0 -> [kind |-> "Ok", val |-> "Deposit"]
      [] b = 1 -> [kind |-> "Ok", val |-> "Transfer"]
      [] b = 2 -> [kind |-> "Ok", val |-> "Withdrawal"]
      [] OTHER -> [kind |-> "Ok", val |-> "Unknown"]

\* read_tx_type: the match on the code byte
read_tx_type(b) ==
    CASE b = 0 -> [kind |-> "Ok", val |-> "Deposit"]
      [] b = 1 -> [kind |-> "Ok", val |-> "Transfer"]
      [] b = 2 -> [kind |-> "Ok", val |-> "Withdrawal"]
      [] OTHER -> [kind |-> "InvalidData", msg |-> "Invalid TxType"]

\* read_tx_status: the match on the code byte
read_tx_status(b) ==
    CASE b = 0 -> [kind |-> "Ok", val |-> "Success"]
      [] b = 1 -> [kind |-> "Ok", val |-> "Failure"]
      [] b = 2 -> [kind |-> "Ok", val |-> "Pending"]
      [] OTHER -> [kind |-> "InvalidData", msg |-> "unexpected TxType"]

EofMsg == "failed to fill whole buffer"

\* Header::read without the comparison with MAGIC
Header_read_AnyMagic(r) ==
    LET m == read_exact(r, 4)
        s == read_exact(m.rest, 4)
    IN  IF m.kind # "Ok" \/ s.kind # "Ok"
        THEN [kind |-> "UnexpectedEof", msg |-> EofMsg, rest |-> <<>>]
        ELSE [kind |-> "Ok", record_size |-> u32_from_be_bytes(s.buf),
              rest |-> s.rest]

\* Header::read: read_magic, the comparison with MAGIC, read_u32
Header_read(r) ==
    LET m == read_exact(r, 4)
        s == read_exact(m.rest, 4)
    IN  IF m.kind # "Ok"
        THEN [kind |-> "UnexpectedEof", msg |-> EofMsg, rest |-> m.rest]
        ELSE IF m.buf # MAGIC
        THEN [kind |-> "InvalidData", msg |-> "invalid magic", rest |-> m.rest]
        ELSE IF s.kind # "Ok"
        THEN [kind |-> "UnexpectedEof", msg |-> EofMsg, rest |-> s.rest]
        ELSE [kind |-> "Ok", record_size |-> u32_from_be_bytes(s.buf),
              rest |-> s.rest]

\* read_tx without the comparison of full_record_size with 46 + desc_len
read_tx_NoSizeCheck(buf, full_record_size, checks) ==
    LET type == read_tx_type(buf[9])
        status == read_tx_status(buf[42])
        desc_len == u32_from_be_bytes(SubSeq(buf, 43, 46))
        desc == SubSeq(buf, 47, 46 + desc_len.lo)
    IN  IF type.kind # "Ok" THEN IOError(type.msg)
        ELSE IF status.kind # "Ok" THEN IOError(status.msg)
        ELSE IF U32Exceeds(desc_len, Len(buf) - 46) THEN IOError(EofMsg)
        ELSE IF ~Utf8Valid(desc) THEN IOError("Invalid UTF-8")
        ELSE [kind |-> "Ok",
              tx |-> Transaction(u64_from_be_bytes(SubSeq(buf, 1, 8)),
                                 type.val,
                                 u64_from_be_bytes(SubSeq(buf, 10, 17)),
                                 u64_from_be_bytes(SubSeq(buf, 18, 25)),
                                 u64_from_be_bytes(SubSeq(buf, 26, 33)),
                                 u64_from_be_bytes(SubSeq(buf, 34, 41)),
                                 status.val,
                                 from_utf8(desc))]

\* read_tx on the Cursor over the record buffer; every `?` on an io::Error
\* converts through From<std::io::Error> into ParseError::IOError
read_tx(buf, full_record_size, checks) ==
    LET eof(end) == Len(buf) < end
        type == read_tx_type(buf[9])
        status == read_tx_status(buf[42])
        desc_len == u32_from_be_bytes(SubSeq(buf, 43, 46))
        sum == U32Add(MIN_RECORD_SIZE, desc_len)
        desc == SubSeq(buf, 47, 46 + desc_len.lo)
    IN  IF eof(8) \/ eof(9) THEN IOError(EofMsg)
        ELSE IF type.kind # "Ok" THEN IOError(type.msg)
        ELSE IF eof(17) \/ eof(25) \/ eof(33) \/ eof(41) \/ eof(42)
        THEN IOError(EofMsg)
        ELSE IF status.kind # "Ok" THEN IOError(status.msg)
        ELSE IF eof(46) THEN IOError(EofMsg)
        ELSE IF sum.overflow /\ checks THEN Panic("attempt to add with overflow")
        ELSE IF full_record_size # sum.val
        THEN InvalidFormat("mailformed record. record size mismatch")
        ELSE IF U32Exceeds(desc_len, Len(buf) - 46) THEN IOError(EofMsg)
        ELSE IF ~Utf8Valid(desc) THEN IOError("Invalid UTF-8")
        ELSE [kind |-> "Ok",
              tx |-> Transaction(u64_from_be_bytes(SubSeq(buf, 1, 8)),
                                 type.val,
                                 u64_from_be_bytes(SubSeq(buf, 10, 17)),
                                 u64_from_be_bytes(SubSeq(buf, 18, 25)),
                                 u64_from_be_bytes(SubSeq(buf, 26, 33)),
                                 u64_from_be_bytes(SubSeq(buf, 34, 41)),
                                 status.val,
                                 from_utf8(desc))]

\* Header::new(size).dump()
Header_dump(size) == MAGIC \o to_be_bytes(size, 4)

sizeof_tx(tx) == 8 + 1 + 8 + 8 + 8 + 8 + 1 + Len(as_bytes(tx.description))

\* calculate_size without the DESC_LEN field
calculate_size_NoDescLen(tx) == sizeof_tx(tx)

calculate_size(tx) == sizeof_tx(tx) + 4

dump_tx(tx) ==
    to_be_bytes(tx.id, 8) \o to_be_bytes(TxTypeAsU8(tx.type), 1)
      \o to_be_bytes(tx.from_user, 8) \o to_be_bytes(tx.to_user, 8)
      \o to_be_bytes(tx.amount, 8) \o to_be_bytes(tx.timestamp, 8)
      \o to_be_bytes(TxStatusAsU8(tx.status), 1)
      \o to_be_bytes(Len(as_bytes(tx.description)), 4)
      \o as_bytes(tx.description)

tx_to_bin(tx) == Header_dump(calculate_size(tx)) \o dump_tx(tx)

dump_as_bin(txs) == Concat([i \in 1..Len(txs) |-> tx_to_bin(txs[i])])

(***************************************************************************)
(* Inputs of the binary codec                                              *)
(***************************************************************************)
Kinds == {"Deposit", "Transfer", "Withdrawal"}
Statuses == {"Success", "Failure", "Pending"}

TxsWith(descs) ==
    { Transaction(1001, t, 0, 501, 50000, 7, s, d) :
        t \in Kinds, s \in Statuses, d \in descs }

BinTxs == TxsWith({<<>>, <<"a", ",">>})

\* one record as it lies on the wire, every part given
Wire(magic, size, kind_code, status_code, desc_len, desc) ==
    magic \o size \o to_be_bytes(1001, 8) \o <<kind_code>>
      \o to_be_bytes(0, 8) \o to_be_bytes(501, 8) \o to_be_bytes(50000, 8)
      \o to_be_bytes(7, 8) \o <<status_code>> \o desc_len \o desc

GoodWire(kind_code, status_code, desc) ==
    Wire(MAGIC, to_be_bytes(46 + Len(desc), 4), kind_code, status_code,
         to_be_bytes(Len(desc), 4), desc)

WireRecords ==
    { GoodWire(0, 0, <<>>), GoodWire(1, 1, <<97>>), GoodWire(2, 2, <<97, 44>>),
      \* altered magic
      Wire(<<89, 80, 66, 77>>, to_be_bytes(47, 4), 0, 0, to_be_bytes(1, 4), <<97>>),
      \* record_size below MIN_RECORD_SIZE
      Wire(MAGIC, to_be_bytes(16, 4), 0, 0, to_be_bytes(1, 4), <<97>>),
      Wire(MAGIC, to_be_bytes(45, 4), 0, 0, to_be_bytes(0, 4), <<>>),
      \* record_size and desc_len disagree
      Wire(MAGIC, to_be_bytes(48, 4), 0, 0, to_be_bytes(1, 4), <<97, 98>>),
      Wire(MAGIC, to_be_bytes(47, 4), 0, 0, to_be_bytes(2, 4), <<97>>),
      Wire(MAGIC, to_be_bytes(47, 4), 0, 0, <<255, 255, 255, 255>>, <<97>>),
      \* codes outside 0..2
      GoodWire(3, 0, <<97>>), GoodWire(0, 255, <<97>>),
      \* description that is not UTF-8
      GoodWire(0, 0, <<255>>) }

\* lengths of the cut-off record a source may end with
TailLens == {0, 1, 4, 7, 8, 30}

BinSources ==
    { Concat(rs) \o Take(GoodWire(1, 2, <<97>>), n) :
        rs \in SeqsUpTo(WireRecords, MaxRecs), n \in TailLens }

InitBin ==
    /\ overflow_checks \in BOOLEAN
    /\ header = U32(0)
    /\ current_tx = <<>>
    /\ result = <<>>
    /\ ret = NoRet
    /\ \/ /\ transactions \in SeqsUpTo(BinTxs, MaxTxs)
          /\ input = <<>>
          /\ reader = <<>>
          /\ pc = "dump"
       \/ /\ transactions = <<>>
          /\ input \in BinSources
          /\ reader = input
          /\ pc = "header"

\* dump_as_bin into a buffer, then the buffer becomes the source
DumpAsBin ==
    /\ pc = "dump"
    /\ input' = dump_as_bin(transactions)
    /\ reader' = input'
    /\ pc' = "header"
    /\ UNCHANGED <<transactions, header, current_tx, result, ret, overflow_checks>>

\* HeaderRead without the UnexpectedEof arm: every Err of Header::read is
\* returned as InvalidFormat
HeaderRead_EofIsError ==
    /\ pc = "header"
    /\ LET h == Header_read(reader)
       IN  /\ reader' = h.rest
           /\ IF h.kind = "Ok"
              THEN /\ header' = h.record_size
                   /\ pc' = "record"
                   /\ ret' = ret
              ELSE /\ header' = header
                   /\ pc' = "done"
                   /\ ret' = InvalidFormat(h.msg)
    /\ UNCHANGED <<transactions, input, current_tx, result, overflow_checks>>

\* parse_from_bin, top of the loop: Header::read and the match on its result
HeaderRead ==
    /\ pc = "header"
    /\ LET h == Header_read(reader)
       IN  /\ reader' = h.rest
           /\ IF h.kind = "Ok"
              THEN /\ header' = h.record_size
                   /\ pc' = "record"
                   /\ ret' = ret
              ELSE /\ header' = header
                   /\ pc' = "done"
                   /\ ret' = IF h.kind = "UnexpectedEof" THEN Ok
                             ELSE InvalidFormat(h.msg)
    /\ UNCHANGED <<transactions, input, current_tx, result, overflow_checks>>

\* parse_from_bin, the Ok(header) arm: size check, read_exact, read_tx, push
ReadRecord ==
    /\ pc = "record"
    /\ IF U32Less(header, MIN_RECORD_SIZE)
       THEN /\ ret' = InvalidFormat("mailformed record. record size too small")
            /\ pc' = "done"
            /\ UNCHANGED <<reader, result>>
       ELSE IF U32Exceeds(header, Len(reader))
       THEN /\ ret' = IOError(EofMsg)
            /\ pc' = "done"
            /\ reader' = <<>>
            /\ UNCHANGED result
       ELSE LET b == read_exact(reader, header.lo)
                t == read_tx(b.buf, header, overflow_checks)
            IN  /\ reader' = b.rest
                /\ IF t.kind = "Ok"
                   THEN /\ result' = Append(result, t.tx)
                        /\ pc' = "header"
                        /\ ret' = ret
                   ELSE /\ result' = result
                        /\ pc' = "done"
                        /\ ret' = t
    /\ UNCHANGED <<transactions, input, header, current_tx, overflow_checks>>

NextBin == DumpAsBin \/ HeaderRead \/ ReadRecord

SpecBin == InitBin /\ [][NextBin]_vars

(***************************************************************************)
(* Claims about the binary codec                                           *)
(***************************************************************************)

\* C1 (as claimed): parse_from_bin of the bytes of dump_as_bin(T) returns
\* Ok with a list equal to T.
C1_BinRoundTrip ==
    (pc = "done" /\ input = dump_as_bin(transactions))
        => (ret = Ok /\ result = transactions)

\* C4: a full 4-byte magic at a record boundary that differs from MAGIC ends
\* the call with InvalidFormat, whatever was decoded before; nothing is
\* appended and the call never returns Ok.
C4_MagicRejected ==
    [][(pc = "header" /\ Len(reader) >= 4 /\ Take(reader, 4) # MAGIC)
          => (pc' = "done" /\ ret' = InvalidFormat("invalid magic")
              /\ result' = result)]_vars

C4_Witness ==
    /\ pc = "done"
    /\ ret = InvalidFormat("invalid magic")
    /\ Len(result) >= 1

\* desc_len of the body that follows the header just read
BodyDescLen == u32_from_be_bytes(SubSeq(reader, 43, 46))

\* record_size = 46 + desc_len over the naturals
SizeMatches(record_size, desc_len) ==
    LET lo == desc_len.lo + 46
    IN  /\ record_size.lo = lo % 65536
        /\ record_size.hi = desc_len.hi + (lo \div 65536)

\* C6: a record whose record_size differs from 46 + desc_len of its body is
\* rejected (the call ends without Ok and without the record; with
\* InvalidFormat when the body is there and its codes are valid, a panic
\* instead where the u32 sum overflows in a build with overflow checks), and
\* a record_size below 46 is rejected with InvalidFormat while the source
\* still holds every byte after the header.
C6_SizeAccounting ==
    [][/\ (pc = "record" /\ U32Less(header, MIN_RECORD_SIZE))
            => /\ pc' = "done"
               /\ ret' = InvalidFormat("mailformed record. record size too small")
               /\ reader' = reader
               /\ result' = result
       /\ (/\ pc = "record"
           /\ ~U32Less(header, MIN_RECORD_SIZE)
           /\ Len(reader) >= 46
           /\ ~SizeMatches(header, BodyDescLen))
            => /\ pc' = "done"
               /\ result' = result
               /\ ret'.kind \in {"InvalidFormat", "IOError", "Panic"}
               /\ (/\ ~U32Exceeds(header, Len(reader))
                   /\ reader[9] \in 0..2
                   /\ reader[42] \in 0..2)
                    => \/ ret' = InvalidFormat("mailformed record. record size mismatch")
                       \/ /\ overflow_checks
                          /\ U32Add(MIN_RECORD_SIZE, BodyDescLen).overflow
                          /\ ret'.kind = "Panic"]_vars

C6_Witness ==
    /\ pc = "done"
    /\ ret = InvalidFormat("mailformed record. record size mismatch")
    /\ Len(result) >= 1

C6_WitnessTooSmall ==
    /\ pc = "done"
    /\ ret = InvalidFormat("mailformed record. record size too small")
    /\ Len(reader) >= 46

\* C12: when a header read starts with nothing left of the source the call
\* ends with Ok and the list built so far (the empty list for an empty
\* source); the list only ever grows at its end, by the record whose body
\* follows the header just read, so it holds the records in stream order.
C12_NormalTermination ==
    /\ [](input = <<>> /\ pc = "done" => ret = Ok /\ result = <<>>)
    /\ [][/\ (pc = "header" /\ reader = <<>>)
               => (pc' = "done" /\ ret' = Ok /\ result' = result)
          /\ \/ result' = result
             \/ /\ pc = "record"
                /\ Len(result') = Len(result) + 1
                /\ Take(result', Len(result)) = result
                /\ result'[Len(result')].id
                     = u64_from_be_bytes(SubSeq(reader, 1, 8))
                /\ result'[Len(result')].type
                     = read_tx_type(reader[9]).val]_vars

\* two whole records, then the source is exhausted at the record boundary
C12_Witness ==
    /\ pc = "done"
    /\ input = GoodWire(0, 0, <<>>) \o GoodWire(1, 1, <<97>>)
    /\ reader = <<>>
    /\ ret = Ok
    /\ Len(result) = 2
    /\ result[1].type = "Deposit"
    /\ result[2].type = "Transfer"

\* C13 (as claimed): a header read that starts with 1 to 7 bytes left of the
\* source ends the call with a decode error, never with Ok.
C13_TruncatedHeader ==
    [][(pc = "header" /\ Len(reader) \in 1..7)
          => (pc' = "done" /\ ret'.kind \in {"InvalidFormat", "IOError"})]_vars

\* the wire codes of section 2 of the format: declaration order from 0
WireKindCode(t) ==
    CASE t = "Deposit" -> 0 [] t = "Transfer" -> 1 [] t = "Withdrawal" -> 2

WireStatusCode(st) ==
    CASE st = "Success" -> 0 [] st = "Failure" -> 1 [] st = "Pending" -> 2

\* C14 (as claimed): in the bytes dump_as_bin wrote, the kind_code byte and
\* the status_code byte of the first record are 0/1/2 for Deposit/Transfer/
\* Withdrawal and Success/Failure/Pending, the codes read_tx_type and
\* read_tx_status map back to the variant that was written.
C14_WireCodes ==
    (pc # "dump" /\ transactions # <<>>)
        => LET tx == transactions[1]
           IN  /\ input[8 + 9] = WireKindCode(tx.type)
               /\ input[8 + 42] = WireStatusCode(tx.status)
               /\ read_tx_type(input[8 + 9]) = [kind |-> "Ok", val |-> tx.type]
               /\ read_tx_status(input[8 + 42])
                    = [kind |-> "Ok", val |-> tx.status]

\* C15 (as claimed): a record with the magic, a record_size of 46 + desc_len
\* and its whole body in the source, whose kind_code or status_code is not
\* 0, 1 or 2, ends the call with ParseError::InvalidFormat.
C15_UnknownCodeIsInvalidFormat ==
    [][(/\ pc = "record"
        /\ ~U32Less(header, MIN_RECORD_SIZE)
        /\ ~U32Exceeds(header, Len(reader))
        /\ SizeMatches(header, BodyDescLen)
        /\ (reader[9] \notin 0..2 \/ reader[42] \notin 0..2))
          => (pc' = "done" /\ ret'.kind = "InvalidFormat")]_vars

\* a byte stream cut into records by their headers alone: after the four
\* bytes of the magic, a big-endian record_size and that many bytes; what
\* does not start with the magic, or ends early, is one last piece
RECURSIVE CutRecords(_)
CutRecords(bytes) ==
    IF bytes = <<>> THEN <<>>
    ELSE LET size == ((bytes[5] * 256 + bytes[6]) * 256 + bytes[7]) * 256
                       + bytes[8]
         IN  IF \/ Len(bytes) < 8
                \/ Take(bytes, 4) # <<89, 80, 66, 78>>
                \/ bytes[5] > 0
                \/ Len(bytes) < 8 + size
             THEN <<bytes>>
             ELSE <<Take(bytes, 8 + size)>> \o CutRecords(Drop(bytes, 8 + size))

\* C22: what dump_as_bin writes is, for each transaction in list order and
\* nothing else, the magic, a big-endian record_size of 46 + the length of
\* the description, and record_size body bytes (54 + that length in all),
\* the body ending with desc_len and the description.
C22_BinLayout ==
    [][pc = "dump" =>
         LET recs == CutRecords(input')
             n == Len(transactions)
             size(r) == ((r[5] * 256 + r[6]) * 256 + r[7]) * 256 + r[8]
             dlen(i) == Len(transactions[i].description)
         IN  /\ Len(recs) = n
             /\ \A i \in 1..n :
                  /\ Take(recs[i], 4) = <<89, 80, 66, 78>>
                  /\ size(recs[i]) = 46 + dlen(i)
                  /\ Len(recs[i]) = 54 + dlen(i)
                  /\ SubSeq(recs[i], 9, 16) = <<0, 0, 0, 0, 0, 0, 3, 233>>
                  /\ SubSeq(recs[i], 51, 54) = <<0, 0, 0, dlen(i)>>
                  /\ Drop(recs[i], 54) = as_bytes(transactions[i].description)
             /\ \A i, j \in 1..n :
                  /\ transactions[i].type = transactions[j].type
                       <=> recs[i][17] = recs[j][17]
                  /\ transactions[i].status = transactions[j].status
                       <=> recs[i][50] = recs[j][50]
      ]_vars

\* two records of different lengths were written
C22_Witness ==
    /\ pc = "header"
    /\ Len(transactions) = 2
    /\ transactions[1].description = <<"a", ",">>
    /\ transactions[2].description = <<>>
    /\ transactions[1].type # transactions[2].type
    /\ Len(input) = 56 + 54

(***************************************************************************)
(* Strings: str::trim, BufRead::lines, u64 to_string / parse, split, join  *)
(***************************************************************************)
\* char::is_whitespace on the characters of the model
IsWhitespace(c) == c \in {" ", "\t", "\n", "\r"}

\* str::trim_start: from the first character that is not whitespace on
trim_start(s) ==
    LET keep == {i \in 1..Len(s) : ~IsWhitespace(s[i])}
    IN  IF keep = {} THEN <<>>
        ELSE SubSeq(s, CHOOSE i \in keep : \A j \in keep : i <= j, Len(s))

\* str::trim_end: up to the last character that is not whitespace
trim_end(s) ==
    LET keep == {i \in 1..Len(s) : ~IsWhitespace(s[i])}
    IN  IF keep = {} THEN <<>>
        ELSE SubSeq(s, 1, CHOOSE i \in keep : \A j \in keep : j <= i)

\* str::trim
trim(s) == trim_end(trim_start(s))

\* index of the first `c` in s at or after i, 0 when there is none
IndexOf(s, c, i) ==
    LET at == {j \in i..Len(s) : s[j] = c}
    IN  IF at = {} THEN 0 ELSE CHOOSE j \in at : \A k \in at : j <= k

\* one step of BufRead::lines on the text that is left: the line without
\* its "\n" or "\r\n", and the text after it
NextLine(text) ==
    LET n == IndexOf(text, "\n", 1)
        raw == IF n = 0 THEN text ELSE Take(text, n - 1)
        line == IF n # 0 /\ raw # <<>> /\ raw[Len(raw)] = "\r"
                THEN Take(raw, Len(raw) - 1) ELSE raw
    IN  [line |-> line, rest |-> IF n = 0 THEN <<>> ELSE Drop(text, n)]

DigitChars == <<"0", "1", "2", "3", "4", "5", "6", "7", "8", "9">>

\* u64::to_string
RECURSIVE u64_to_string(_)
u64_to_string(n) ==
    IF n < 10 THEN <<DigitChars[n + 1]>>
    ELSE u64_to_string(n \div 10) \o <<DigitChars[(n % 10) + 1]>>

DigitValue(c) == (CHOOSE d \in 1..10 : DigitChars[d] = c) - 1

IsDigit(c) == \E d \in 1..10 : DigitChars[d] = c

RECURSIVE DigitsValue(_)
DigitsValue(s) ==
    IF s = <<>> THEN 0
    ELSE DigitsValue(Take(s, Len(s) - 1)) * 10 + DigitValue(s[Len(s)])

\* u64::MAX in decimal
U64_MAX_DIGITS ==
    <<"1", "8", "4", "4", "6", "7", "4", "4", "0", "7", "3", "7", "0", "9",
      "5", "5", "1", "6", "1", "5">>

\* digits without their leading zeros
StripZeros(d) ==
    LET nz == {i \in 1..Len(d) : d[i] # "0"}
    IN  IF nz = {} THEN <<>>
        ELSE SubSeq(d, CHOOSE i \in nz : \A j \in nz : i <= j, Len(d))

\* a > b for digit strings of one length
RECURSIVE DigitsGreater(_, _)
DigitsGreater(a, b) ==
    IF a = <<>> THEN FALSE
    ELSE IF Head(a) # Head(b) THEN DigitValue(Head(a)) > DigitValue(Head(b))
    ELSE DigitsGreater(Tail(a), Tail(b))

\* the checked multiply-and-add of the parse loop fails: the digits read so
\* far stand for more than u64::MAX
Overflows(digits) ==
    LET d == StripZeros(digits)
    IN  \/ Len(d) > Len(U64_MAX_DIGITS)
        \/ Len(d) = Len(U64_MAX_DIGITS) /\ DigitsGreater(d, U64_MAX_DIGITS)

\* str::parse::<u64>: an optional '+', then one or more decimal digits read
\* from the left; the first bad character or the first overflow ends it (the
\* values the model computes are short, the long strings are the refused ones)
ParseU64(s) ==
    LET digits == IF s # <<>> /\ s[1] = "+" THEN Tail(s) ELSE s
        bad == {i \in 1..Len(digits) : ~IsDigit(digits[i])}
        good == IF bad = {} THEN digits
                ELSE Take(digits, (CHOOSE i \in bad : \A j \in bad : i <= j) - 1)
    IN  IF s = <<>>
        THEN [ok |-> FALSE, msg |-> "cannot parse integer from empty string"]
        ELSE IF digits = <<>>
        THEN [ok |-> FALSE, msg |-> "invalid digit found in string"]
        ELSE IF Overflows(good)
        THEN [ok |-> FALSE, msg |-> "number too large to fit in target type"]
        ELSE IF bad # {}
        THEN [ok |-> FALSE, msg |-> "invalid digit found in string"]
        ELSE [ok |-> TRUE, val |-> DigitsValue(digits)]

\* str::split(c)
RECURSIVE Split(_, _)
Split(s, c) ==
    LET n == IndexOf(s, c, 1)
    IN  IF n = 0 THEN <<s>> ELSE <<Take(s, n - 1)>> \o Split(Drop(s, n), c)

\* [String]::join(sep)
RECURSIVE Join(_, _)
Join(ss, sep) ==
    IF ss = <<>> THEN <<>>
    ELSE IF Len(ss) = 1 THEN ss[1]
    ELSE ss[1] \o sep \o Join(Tail(ss), sep)

S_TX_ID == <<"T", "X", "_", "I", "D">>
S_TX_TYPE == <<"T", "X", "_", "T", "Y", "P", "E">>
S_FROM_USER_ID == <<"F", "R", "O", "M", "_", "U", "S", "E", "R", "_", "I", "D">>
S_TO_USER_ID == <<"T", "O", "_", "U", "S", "E", "R", "_", "I", "D">>
S_AMOUNT == <<"A", "M", "O", "U", "N", "T">>
S_TIMESTAMP == <<"T", "I", "M", "E", "S", "T", "A", "M", "P">>
S_STATUS == <<"S", "T", "A", "T", "U", "S">>
S_DESCRIPTION == <<"D", "E", "S", "C", "R", "I", "P", "T", "I", "O", "N">>

S_DEPOSIT == <<"D", "E", "P", "O", "S", "I", "T">>
S_TRANSFER == <<"T", "R", "A", "N", "S", "F", "E", "R">>
S_WITHDRAWAL == <<"W", "I", "T", "H", "D", "R", "A", "W", "A", "L">>
S_SUCCESS == <<"S", "U", "C", "C", "E", "S", "S">>
S_FAILURE == <<"F", "A", "I", "L", "U", "R", "E">>
S_PENDING == <<"P", "E", "N", "D", "I", "N", "G">>

\* FromStr for TxType that matches the names without regard to case
TxType_from_str_AnyCase(s) ==
    LET lower == <<"a", "b", "c", "d", "e", "f", "g", "h", "i", "j", "k", "l",
                   "m", "n", "o", "p", "q", "r", "s", "t", "u", "v", "w", "x",
                   "y", "z">>
        upper == <<"A", "B", "C", "D", "E", "F", "G", "H", "I", "J", "K", "L",
                   "M", "N", "O", "P", "Q", "R", "S", "T", "U", "V", "W", "X",
                   "Y", "Z">>
        up(c) == IF \E k \in 1..26 : lower[k] = c
                 THEN upper[CHOOSE k \in 1..26 : lower[k] = c] ELSE c
        u == [i \in 1..Len(s) |-> up(s[i])]
    IN  CASE u = S_DEPOSIT -> [ok |-> TRUE, val |-> "Deposit"]
          [] u = S_TRANSFER -> [ok |-> TRUE, val |-> "Transfer"]
          [] u = S_WITHDRAWAL -> [ok |-> TRUE, val |-> "Withdrawal"]
          [] OTHER -> [ok |-> FALSE, msg |-> "unknown tx type"]

\* impl FromStr for TxType (text_format.rs)
TxType_from_str(s) ==
    CASE s = S_DEPOSIT -> [ok |-> TRUE, val |-> "Deposit"]
      [] s = S_TRANSFER -> [ok |-> TRUE, val |-> "Transfer"]
      [] s = S_WITHDRAWAL -> [ok |-> TRUE, val |-> "Withdrawal"]
      [] OTHER -> [ok |-> FALSE, msg |-> "unknown tx type"]

\* impl FromStr for TxStatus (text_format.rs)
TxStatus_from_str(s) ==
    CASE s = S_SUCCESS -> [ok |-> TRUE, val |-> "Success"]
      [] s = S_FAILURE -> [ok |-> TRUE, val |-> "Failure"]
      [] s = S_PENDING -> [ok |-> TRUE, val |-> "Pending"]
      [] OTHER -> [ok |-> FALSE, msg |-> "unknown tx status"]

\* impl Display for TxType (no arm for Unknown)
TxType_to_string(t) ==
    CASE t = "Deposit" -> S_DEPOSIT
      [] t = "Transfer" -> S_TRANSFER
      [] t = "Withdrawal" -> S_WITHDRAWAL

\* impl Display for TxStatus (no arm for Unknown)
TxStatus_to_string(t) ==
    CASE t = "Success" -> S_SUCCESS
      [] t = "Failure" -> S_FAILURE
      [] t = "Pending" -> S_PENDING

(***************************************************************************)
(* csv_format.rs                                                           *)
(***************************************************************************)
EXPECTED_HEADER ==
    <<S_TX_ID, S_TX_TYPE, S_FROM_USER_ID, S_TO_USER_ID, S_AMOUNT,
      S_TIMESTAMP, S_STATUS, S_DESCRIPTION>>

\* state of the loop of parse_csv_line before the first character; skip
\* says that the next character was already taken by the chars.next() of
\* the doubled-quote arm
CsvScanStart ==
    [result |-> <<>>, current |-> <<>>, in_quotes |-> FALSE, skip |-> FALSE]

\* csv_step without the doubled-quote arm: every quote toggles in_quotes
csv_step_NoDoubled(line, st, i) ==
    IF line[i] = "\""
    THEN [st EXCEPT !.in_quotes = ~@]
    ELSE IF line[i] = "," /\ ~st.in_quotes
    THEN [st EXCEPT !.result = Append(@, trim(st.current)), !.current = <<>>]
    ELSE [st EXCEPT !.current = Append(@, line[i])]

\* one character of the `while let Some(c) = chars.next()` loop
csv_step(line, st, i) ==
    IF st.skip THEN [st EXCEPT !.skip = FALSE]
    ELSE IF line[i] = "\""
    THEN IF st.in_quotes /\ i + 1 <= Len(line) /\ line[i + 1] = "\""
         THEN [st EXCEPT !.current = Append(@, "\""), !.skip = TRUE]
         ELSE [st EXCEPT !.in_quotes = ~@]
    ELSE IF line[i] = "," /\ ~st.in_quotes
    THEN [st EXCEPT !.result = Append(@, trim(st.current)), !.current = <<>>]
    ELSE [st EXCEPT !.current = Append(@, line[i])]

\* the loop over the characters lo..hi, halved to keep the evaluation shallow
RECURSIVE csv_loop(_, _, _, _)
csv_loop(line, st, lo, hi) ==
    IF lo > hi THEN st
    ELSE IF lo = hi THEN csv_step(line, st, lo)
    ELSE LET mid == (lo + hi) \div 2
             left == csv_loop(line, st, lo, mid)
         IN  \* the test only makes the left half be evaluated first
             IF left.skip \in BOOLEAN
             THEN csv_loop(line, left, mid + 1, hi)
             ELSE left

\* what follows the loop in parse_csv_line
csv_finish(st) ==
    IF st.in_quotes
    THEN InvalidFormat("unclosed quotes in CSV line")
    ELSE [kind |-> "Ok", fields |-> Append(st.result, trim(st.current))]

parse_csv_line(line) ==
    csv_finish(csv_loop(line, CsvScanStart, 1, Len(line)))

\* parse_header: the first line that is not blank, split into fields
RECURSIVE parse_header(_)
parse_header(text) ==
    IF text = <<>>
    THEN [kind |-> "InvalidFormat", msg |-> "invalid header", rest |-> <<>>]
    ELSE LET l == NextLine(text)
             trimmed == trim(l.line)
             f == parse_csv_line(trimmed)
         IN  IF trimmed = <<>> THEN parse_header(l.rest)
             ELSE IF f.kind = "Ok"
             THEN [kind |-> "Ok", fields |-> f.fields, rest |-> l.rest]
             ELSE [kind |-> f.kind, msg |-> f.msg, rest |-> l.rest]

\* header_is_valid that compares the columns as a set
header_is_valid_AnyOrder(h) ==
    /\ Len(h) = Len(EXPECTED_HEADER)
    /\ {h[i] : i \in 1..Len(h)} = {EXPECTED_HEADER[i] : i \in 1..Len(EXPECTED_HEADER)}

header_is_valid(h) == EXPECTED_HEADER = h

\* parse_transaction that refuses only a line with fewer than 8 fields
parse_transaction_AtLeast(tx) ==
    LET v == parse_csv_line(tx)
        values == v.fields
        id == ParseU64(values[1])
        type == TxType_from_str(values[2])
        from_user == ParseU64(values[3])
        to_user == ParseU64(values[4])
        amount == ParseU64(values[5])
        timestamp == ParseU64(values[6])
        status == TxStatus_from_str(values[7])
    IN  IF v.kind # "Ok" THEN v
        ELSE IF Len(values) < Len(EXPECTED_HEADER)
        THEN InvalidFormatWith("invalid fields count: ", <<Len(values)>>)
        ELSE IF ~id.ok THEN InvalidFormat(id.msg)
        ELSE IF ~type.ok THEN InvalidFormat(type.msg)
        ELSE IF ~from_user.ok THEN InvalidFormat(from_user.msg)
        ELSE IF ~to_user.ok THEN InvalidFormat(to_user.msg)
        ELSE IF ~amount.ok THEN InvalidFormat(amount.msg)
        ELSE IF ~timestamp.ok THEN InvalidFormat(timestamp.msg)
        ELSE IF ~status.ok THEN InvalidFormat(status.msg)
        ELSE [kind |-> "Ok",
              tx |-> Transaction(id.val, type.val, from_user.val, to_user.val,
                                 amount.val, timestamp.val, status.val,
                                 values[8])]

\* parse_transaction: field count, then the fields in order
parse_transaction(tx) ==
    LET v == parse_csv_line(tx)
        values == v.fields
        id == ParseU64(values[1])
        type == TxType_from_str(values[2])
        from_user == ParseU64(values[3])
        to_user == ParseU64(values[4])
        amount == ParseU64(values[5])
        timestamp == ParseU64(values[6])
        status == TxStatus_from_str(values[7])
    IN  IF v.kind # "Ok" THEN v
        ELSE IF Len(values) # Len(EXPECTED_HEADER)
        THEN InvalidFormatWith("invalid fields count: ", <<Len(values)>>)
        ELSE IF ~id.ok THEN InvalidFormat(id.msg)
        ELSE IF ~type.ok THEN InvalidFormat(type.msg)
        ELSE IF ~from_user.ok THEN InvalidFormat(from_user.msg)
        ELSE IF ~to_user.ok THEN InvalidFormat(to_user.msg)
        ELSE IF ~amount.ok THEN InvalidFormat(amount.msg)
        ELSE IF ~timestamp.ok THEN InvalidFormat(timestamp.msg)
        ELSE IF ~status.ok THEN InvalidFormat(status.msg)
        ELSE [kind |-> "Ok",
              tx |-> Transaction(id.val, type.val, from_user.val, to_user.val,
                                 amount.val, timestamp.val, status.val,
                                 values[8])]

\* make_escaped_string that pushes every character once
make_escaped_string_NoDoubling(in) == in

RECURSIVE make_escaped_string(_)
make_escaped_string(in) ==
    IF in = <<>> THEN <<>>
    ELSE (IF Head(in) = "\"" THEN <<"\"", "\"">> ELSE <<Head(in)>>)
           \o make_escaped_string(Tail(in))

write_title == Join(EXPECTED_HEADER, <<",">>) \o <<"\n">>

write_tx(tx) ==
    Join(<<u64_to_string(tx.id), TxType_to_string(tx.type),
           u64_to_string(tx.from_user), u64_to_string(tx.to_user),
           u64_to_string(tx.amount), u64_to_string(tx.timestamp),
           TxStatus_to_string(tx.status),
           <<"\"">> \o make_escaped_string(tx.description) \o <<"\"">> >>,
         <<",">>) \o <<"\n">>

dump_as_csv(txs) ==
    write_title \o Concat([i \in 1..Len(txs) |-> write_tx(txs[i])])

\* dump_as_csv into a buffer, then the buffer becomes the source
DumpAsCsv ==
    /\ pc = "dump"
    /\ input' = dump_as_csv(transactions)
    /\ reader' = input'
    /\ pc' = "csv_header"
    /\ UNCHANGED <<transactions, header, current_tx, result, ret, overflow_checks>>

\* parse_from_csv up to the call of parse_transactions
ParseHeader ==
    /\ pc = "csv_header"
    /\ LET h == parse_header(reader)
       IN  /\ reader' = h.rest
           /\ header' = IF h.kind = "Ok" THEN h.fields ELSE header
           /\ IF h.kind # "Ok"
              THEN ret' = InvalidFormat(h.msg) /\ pc' = "done"
              ELSE IF ~header_is_valid(h.fields)
              THEN ret' = InvalidFormat("invalid header") /\ pc' = "done"
              ELSE ret' = ret /\ pc' = "csv_lines"
    /\ UNCHANGED <<transactions, input, current_tx, result, overflow_checks>>

\* parse_transactions: one turn of `for line in lines`, or its end
ParseTransactions ==
    /\ pc = "csv_lines"
    /\ IF reader = <<>>
       THEN /\ ret' = Ok
            /\ pc' = "done"
            /\ UNCHANGED <<reader, result>>
       ELSE LET l == NextLine(reader)
                trimmed == trim(l.line)
                t == parse_transaction(trimmed)
            IN  /\ reader' = l.rest
                /\ IF trimmed = <<>>
                   THEN UNCHANGED <<result, ret, pc>>
                   ELSE IF t.kind = "Ok"
                   THEN result' = Append(result, t.tx) /\ UNCHANGED <<ret, pc>>
                   ELSE ret' = t /\ pc' = "done" /\ result' = result
    /\ UNCHANGED <<transactions, input, header, current_tx, overflow_checks>>

(***************************************************************************)
(* Inputs of the CSV codec                                                 *)
(***************************************************************************)
MaxDescLen == 2    \* longest description that is dumped as CSV
MaxCsvLines == 2   \* most data lines in a hand-made CSV source
MaxLineLen == 5    \* longest line handed to parse_csv_line alone

DescChars == {"a", ",", "\"", " "}

CsvTxs ==
    { Transaction(1001, "Deposit", 0, 501, 50000, 7, "Success", d) :
        d \in SeqsUpTo(DescChars, MaxDescLen) }
    \cup { Transaction(1002, "Withdrawal", 501, 0, 25, 8, "Failure", <<"a">>) }

Swap(seq, i, j) ==
    [k \in 1..Len(seq) |-> IF k = i THEN seq[j] ELSE IF k = j THEN seq[i] ELSE seq[k]]

\* first lines of a source: the header, and the ways of getting it wrong
CsvHeaderLines ==
    { Join(EXPECTED_HEADER, <<",">>),
      Join(EXPECTED_HEADER, <<" ", ",", " ">>),
      <<"\"">> \o Join(EXPECTED_HEADER, <<"\"", ",", "\"">>) \o <<"\"">>,
      Join(Swap(EXPECTED_HEADER, 1, 2), <<",">>),
      Join(Swap(EXPECTED_HEADER, 7, 8), <<",">>),
      Join([EXPECTED_HEADER EXCEPT ![8] = <<"D", "E", "S", "C">>], <<",">>),
      Join([EXPECTED_HEADER EXCEPT ![1] = <<"t", "x", "_", "i", "d">>], <<",">>),
      Join(Append(EXPECTED_HEADER, <<"E", "X", "T", "R", "A">>), <<",">>),
      Join(Take(EXPECTED_HEADER, 7), <<",">>),
      <<"\"">> \o Join(EXPECTED_HEADER, <<",">>) }

\* data lines: \*   1001,DEPOSIT,0,501,50000,7,SUCCESS,"a, ""b"""
\*   1002,WITHDRAWAL,501,0,25,8,FAILURE,a
\*   1001,DEPOSIT,0,501,50000,7,SUCCESS
\*   1001,DEPOSIT,0,501,50000,7,SUCCESS,"a",b
\*   1001,DEPOSIT,0,501,-5,7,SUCCESS,"a"
\*   1001,Deposit,0,501,50000,7,SUCCESS,"a"
\*   1001,DEPOSIT,0,501,50000,7,SUCCESS,"a
LINE_OK1 ==
    <<"1", "0", "0", "1", ",", "D", "E", "P", "O", "S", "I", "T", ",", "0", ",", "5", "0", "1", ",", "5", "0", "0", "0", "0", ",", "7", ",", "S", "U", "C", "C", "E", "S", "S", ",", "\"", "a", ",", " ", "\"", "\"", "b", "\"", "\"", "\"">>
LINE_OK2 ==
    <<"1", "0", "0", "2", ",", "W", "I", "T", "H", "D", "R", "A", "W", "A", "L", ",", "5", "0", "1", ",", "0", ",", "2", "5", ",", "8", ",", "F", "A", "I", "L", "U", "R", "E", ",", "a">>
LINE_7 ==
    <<"1", "0", "0", "1", ",", "D", "E", "P", "O", "S", "I", "T", ",", "0", ",", "5", "0", "1", ",", "5", "0", "0", "0", "0", ",", "7", ",", "S", "U", "C", "C", "E", "S", "S">>
LINE_9 ==
    <<"1", "0", "0", "1", ",", "D", "E", "P", "O", "S", "I", "T", ",", "0", ",", "5", "0", "1", ",", "5", "0", "0", "0", "0", ",", "7", ",", "S", "U", "C", "C", "E", "S", "S", ",", "\"", "a", "\"", ",", "b">>
LINE_BADNUM ==
    <<"1", "0", "0", "1", ",", "D", "E", "P", "O", "S", "I", "T", ",", "0", ",", "5", "0", "1", ",", "-", "5", ",", "7", ",", "S", "U", "C", "C", "E", "S", "S", ",", "\"", "a", "\"">>
LINE_BADTYPE ==
    <<"1", "0", "0", "1", ",", "D", "e", "p", "o", "s", "i", "t", ",", "0", ",", "5", "0", "1", ",", "5", "0", "0", "0", "0", ",", "7", ",", "S", "U", "C", "C", "E", "S", "S", ",", "\"", "a", "\"">>
LINE_UNCLOSED ==
    <<"1", "0", "0", "1", ",", "D", "E", "P", "O", "S", "I", "T", ",", "0", ",", "5", "0", "1", ",", "5", "0", "0", "0", "0", ",", "7", ",", "S", "U", "C", "C", "E", "S", "S", ",", "\"", "a">>

CsvDataLines ==
    { LINE_OK1,
      LINE_OK2,
      LINE_7,
      LINE_9,
      LINE_BADNUM,
      LINE_BADTYPE,
      LINE_UNCLOSED,
      <<" ">> }

\* data lines of 8 fields with one value that is not as it should be (and
\* LINE_PLUS, whose timestamp is +7)
\*   x1,DEPOSIT,0,501,50000,7,SUCCESS,"a"
\*   1001,DEPOSIT,,501,50000,7,SUCCESS,"a"
\*   1001,DEPOSIT,0,5 1,50000,7,SUCCESS,"a"
\*   1001,DEPOSIT,0,501,18446744073709551616,7,SUCCESS,"a"
\*   1001,DEPOSIT,0,501,50000,7.0,SUCCESS,"a"
\*   1001,DEPOSIT,0,501,50000,+7,SUCCESS,"a"
\*   1001,DEPOSIT,0,501,50000,7,Success,"a"
\*   1001,DEPOSIT,0,501,50000,7,,"a"
LINE_BADID ==
    <<"x", "1", ",", "D", "E", "P", "O", "S", "I", "T", ",", "0", ",", "5",
      "0", "1", ",", "5", "0", "0", "0", "0", ",", "7", ",", "S", "U", "C",
      "C", "E", "S", "S", ",", "\"", "a", "\"">>

LINE_EMPTYNUM ==
    <<"1", "0", "0", "1", ",", "D", "E", "P", "O", "S", "I", "T", ",", ",",
      "5", "0", "1", ",", "5", "0", "0", "0", "0", ",", "7", ",", "S", "U",
      "C", "C", "E", "S", "S", ",", "\"", "a", "\"">>

LINE_BADTO ==
    <<"1", "0", "0", "1", ",", "D", "E", "P", "O", "S", "I", "T", ",", "0",
      ",", "5", " ", "1", ",", "5", "0", "0", "0", "0", ",", "7", ",", "S",
      "U", "C", "C", "E", "S", "S", ",", "\"", "a", "\"">>

LINE_OVERFLOW ==
    <<"1", "0", "0", "1", ",", "D", "E", "P", "O", "S", "I", "T", ",", "0",
      ",", "5", "0", "1", ",", "1", "8", "4", "4", "6", "7", "4", "4", "0",
      "7", "3", "7", "0", "9", "5", "5", "1", "6", "1", "6", ",", "7", ",",
      "S", "U", "C", "C", "E", "S", "S", ",", "\"", "a", "\"">>

LINE_BADTS ==
    <<"1", "0", "0", "1", ",", "D", "E", "P", "O", "S", "I", "T", ",", "0",
      ",", "5", "0", "1", ",", "5", "0", "0", "0", "0", ",", "7", ".", "0",
      ",", "S", "U", "C", "C", "E", "S", "S", ",", "\"", "a", "\"">>

LINE_PLUS ==
    <<"1", "0", "0", "1", ",", "D", "E", "P", "O", "S", "I", "T", ",", "0",
      ",", "5", "0", "1", ",", "5", "0", "0", "0", "0", ",", "+", "7", ",",
      "S", "U", "C", "C", "E", "S", "S", ",", "\"", "a", "\"">>

LINE_BADSTATUS ==
    <<"1", "0", "0", "1", ",", "D", "E", "P", "O", "S", "I", "T", ",", "0",
      ",", "5", "0", "1", ",", "5", "0", "0", "0", "0", ",", "7", ",", "S",
      "u", "c", "c", "e", "s", "s", ",", "\"", "a", "\"">>

LINE_NOSTATUS ==
    <<"1", "0", "0", "1", ",", "D", "E", "P", "O", "S", "I", "T", ",", "0",
      ",", "5", "0", "1", ",", "5", "0", "0", "0", "0", ",", "7", ",", ",",
      "\"", "a", "\"">>

CsvValueLines ==
    { LINE_BADID,
      LINE_EMPTYNUM,
      LINE_BADTO,
      LINE_OVERFLOW,
      LINE_BADTS,
      LINE_PLUS,
      LINE_BADSTATUS,
      LINE_NOSTATUS,
      LINE_BADNUM, LINE_BADTYPE }

\* descriptions with a line break
NewlineDescs == { <<"a", "\n", "b">>, <<"\n">>, <<"a", "\r", "\n">> }

\* header and one record whose quoted description is d
QuotedDescSource(d) ==
    Join(EXPECTED_HEADER, <<",">>) \o <<"\n">>
      \o LINE_7 \o <<",", "\"">> \o d \o <<"\"", "\n">>

CsvSources ==
    { pre \o Concat([i \in 1..Len(ls) |-> ls[i] \o <<"\n">>]) :
        pre \in {<<>>, <<" ", "\n">>},
        ls \in { hs \o ds : hs \in SeqsUpTo(CsvHeaderLines, 1),
                            ds \in SeqsUpTo(CsvDataLines, MaxCsvLines) } }
    \cup { Join(<<Join(EXPECTED_HEADER, <<",">>)>> \o pre \o <<l>>, <<"\n">>) :
             pre \in {<<>>, <<LINE_OK2>>}, l \in CsvValueLines }
    \cup { QuotedDescSource(d) : d \in NewlineDescs }
    \cup { Join(<<Join(EXPECTED_HEADER, <<",">>), LINE_OK1>>, <<"\n">>),
           Join(<<Join(EXPECTED_HEADER, <<",">>), LINE_OK1>>, <<"\r", "\n">>) }

InitCsv ==
    /\ overflow_checks = FALSE
    /\ header = <<>>
    /\ current_tx = <<>>
    /\ result = <<>>
    /\ ret = NoRet
    /\ \/ /\ transactions \in SeqsUpTo(CsvTxs, MaxTxs)
          /\ input = <<>>
          /\ reader = <<>>
          /\ pc = "dump"
       \/ /\ transactions = <<>>
          /\ input \in CsvSources
          /\ reader = input
          /\ pc = "csv_header"

NextCsv == DumpAsCsv \/ ParseHeader \/ ParseTransactions

SpecCsv == InitCsv /\ [][NextCsv]_vars

\* parse_from_csv alone, on the hand-made sources
InitCsvParse == InitCsv /\ pc = "csv_header"

NextCsvParse == ParseHeader \/ ParseTransactions

SpecCsvParse == InitCsvParse /\ [][NextCsvParse]_vars

\* parse_csv_line on one line
InitLine ==
    /\ overflow_checks = FALSE
    /\ transactions = <<>>
    /\ input \in SeqsUpTo(DescChars, MaxLineLen)
    /\ reader = input
    /\ header = <<>>
    /\ current_tx = <<>>
    /\ result = <<>>
    /\ ret = NoRet
    /\ pc = "csv_line"

ParseCsvLine ==
    /\ pc = "csv_line"
    /\ LET f == parse_csv_line(reader)
       IN  /\ header' = IF f.kind = "Ok" THEN f.fields ELSE header
           /\ ret' = IF f.kind = "Ok" THEN Ok ELSE f
    /\ reader' = <<>>
    /\ pc' = "done"
    /\ UNCHANGED <<transactions, input, current_tx, result, overflow_checks>>

NextLineSpec == ParseCsvLine

SpecLine == InitLine /\ [][NextLineSpec]_vars

(***************************************************************************)
(* Claims about the CSV codec                                              *)
(***************************************************************************)

\* C2 (as claimed): parse_from_csv of the text of dump_as_csv(T) returns Ok
\* with a list equal to T, descriptions character for character.
C2_CsvRoundTrip ==
    (pc = "done" /\ input = dump_as_csv(transactions))
        => (ret = Ok /\ result = transactions)

\* the first line of the text that is not blank, trimmed (<<>> if none)
RECURSIVE FirstNonBlankLine(_)
FirstNonBlankLine(text) ==
    IF text = <<>> THEN <<>>
    ELSE IF trim(NextLine(text).line) # <<>> THEN trim(NextLine(text).line)
    ELSE FirstNonBlankLine(NextLine(text).rest)

\* C5: when the first non-blank line, split into fields, is not exactly the
\* ordered list of the eight column names, or there is no non-blank line,
\* parse_from_csv returns InvalidFormat and has decoded no record.
C5_HeaderRejected ==
    LET first == FirstNonBlankLine(input)
        f == parse_csv_line(first)
    IN  (pc = "done" /\ (first = <<>> \/ f.kind # "Ok" \/ f.fields # EXPECTED_HEADER))
            => (ret.kind = "InvalidFormat" /\ result = <<>>)

\* a header with the right columns in the wrong order was refused although
\* data lines follow it
C5_Witness ==
    /\ pc = "done"
    /\ ret = InvalidFormat("invalid header")
    /\ header # EXPECTED_HEADER
    /\ {header[i] : i \in 1..Len(header)} = {EXPECTED_HEADER[i] : i \in 1..8}
    /\ reader # <<>>
    /\ result = <<>>

QuoteCount(s) == Cardinality({i \in 1..Len(s) : s[i] = "\""})

TrimAll(ss) == [i \in 1..Len(ss) |-> trim(ss[i])]

\* C7: parse_csv_line rejects a line exactly when a quoted field is still
\* open at its end (an odd number of quote characters); without quotes every
\* comma splits; in pre"body" the commas of body do not split and each
\* doubled quote of body is one literal quote (fields come out trimmed).
C7_QuoteHandling ==
    pc = "done" =>
        /\ IF QuoteCount(input) % 2 = 1
           THEN ret = InvalidFormat("unclosed quotes in CSV line")
           ELSE ret = Ok
        /\ QuoteCount(input) = 0 => header = TrimAll(Split(input, ","))
        /\ \A s \in SeqsUpTo(DescChars, MaxLineLen - 2) :
             LET k == IndexOf(input, "\"", 1)
                 pre == Split(Take(input, k - 1), ",")
             IN  (k # 0 /\ Drop(input, k - 1)
                              = <<"\"">> \o make_escaped_string(s) \o <<"\"">>)
                   => header = TrimAll(Take(pre, Len(pre) - 1))
                                 \o <<trim(pre[Len(pre)] \o s)>>

\* the line  ",""  : one field holding a comma and a quote
C7_Witness ==
    /\ pc = "done"
    /\ input = <<"\"", ",", "\"", "\"", "\"">>
    /\ header = << <<",", "\"">> >>

C7_WitnessUnclosed ==
    /\ pc = "done"
    /\ input = <<"\"", "a", ",">>
    /\ ret = InvalidFormat("unclosed quotes in CSV line")

\* commas of a line that stand outside quotes (q: inside quotes so far)
RECURSIVE OutsideCommas(_, _)
OutsideCommas(l, q) ==
    IF l = <<>> THEN 0
    ELSE IF Head(l) = "\"" THEN OutsideCommas(Tail(l), ~q)
    ELSE (IF Head(l) = "," /\ ~q THEN 1 ELSE 0) + OutsideCommas(Tail(l), q)

\* C17: a non-blank data line that does not split into exactly 8 fields
\* ends the call with InvalidFormat and without a list, whatever was decoded
\* before; where its quotes are closed the reason is the field count.
C17_FieldCount ==
    [][LET line == NextLine(reader).line
           n == OutsideCommas(line, FALSE) + 1
       IN  (/\ pc = "csv_lines"
            /\ reader # <<>>
            /\ trim(line) # <<>>
            /\ n # 8)
             => /\ pc' = "done"
                /\ ret'.kind = "InvalidFormat"
                /\ result' = result
                /\ QuoteCount(line) % 2 = 0
                     => ret' = InvalidFormatWith("invalid fields count: ", <<n>>)]_vars

\* a line of 7 fields after a valid line
C17_Witness ==
    /\ pc = "done"
    /\ ret = InvalidFormatWith("invalid fields count: ", <<7>>)
    /\ Len(result) = 1

\* a line of 9 fields
C17_WitnessMore ==
    /\ pc = "done"
    /\ ret = InvalidFormatWith("invalid fields count: ", <<9>>)

\* s is a decimal unsigned 64-bit integer: decimal digits, with or without
\* a '+' before them, that stand for a number up to 2^64 - 1 (compared in
\* four groups of five digits)
IsDecimalU64(s) ==
    LET d == IF s # <<>> /\ s[1] = "+" THEN Tail(s) ELSE s
        z == StripZeros(d)
        g(k) == DigitsValue(SubSeq(z, 5 * k - 4, 5 * k))
        max == <<18446, 74407, 37095, 51615>>
    IN  /\ d # <<>>
        /\ \A i \in 1..Len(d) :
              d[i] \in {"0", "1", "2", "3", "4", "5", "6", "7", "8", "9"}
        /\ \/ Len(z) < 20
           \/ /\ Len(z) = 20
              /\ \A k \in 1..4 :
                    (\A j \in 1..(k - 1) : g(j) = max[j]) => g(k) <= max[k]

\* C18: a data line of 8 fields in which field 0, 2, 3, 4 or 5 is not a
\* decimal unsigned 64-bit integer, or field 1 or 6 is not one of the three
\* upper-case names of its enumeration, ends the call with InvalidFormat
\* and without a list.
C18_ValueValidation ==
    [][LET f == parse_csv_line(trim(NextLine(reader).line))
       IN  (/\ pc = "csv_lines"
            /\ reader # <<>>
            /\ f.kind = "Ok"
            /\ Len(f.fields) = 8
            /\ \/ \E i \in {1, 3, 4, 5, 6} : ~IsDecimalU64(f.fields[i])
               \/ f.fields[2] \notin {S_DEPOSIT, S_TRANSFER, S_WITHDRAWAL}
               \/ f.fields[7] \notin {S_SUCCESS, S_FAILURE, S_PENDING})
             => /\ pc' = "done"
                /\ ret'.kind = "InvalidFormat"
                /\ result' = result]_vars

\* the line with the type name Deposit, after a valid line
C18_Witness ==
    /\ pc = "done"
    /\ input = Join(<<Join(EXPECTED_HEADER, <<",">>), LINE_OK2, LINE_BADTYPE>>,
                    <<"\n">>)
    /\ ret = InvalidFormat("unknown tx type")
    /\ Len(result) = 1

\* the line with the amount 2^64
C18_WitnessOverflow ==
    /\ pc = "done"
    /\ input = Join(<<Join(EXPECTED_HEADER, <<",">>), LINE_OVERFLOW>>, <<"\n">>)
    /\ ret = InvalidFormat("number too large to fit in target type")

\* the line with the timestamp +7 is decoded
C18_WitnessPlus ==
    /\ pc = "done"
    /\ input = Join(<<Join(EXPECTED_HEADER, <<",">>), LINE_PLUS>>, <<"\n">>)
    /\ ret = Ok
    /\ Len(result) = 1
    /\ result[1].timestamp = 7

\* C19 (as claimed): a record whose quoted description holds a line break
\* is decoded to one transaction with that description, line break and all.
C19_NewlineInQuotes ==
    \A d \in NewlineDescs :
        (pc = "done" /\ input = QuotedDescSource(d))
            => /\ ret = Ok
               /\ Len(result) = 1
               /\ result[1].description = d

(***************************************************************************)
(* utils.rs, text_format.rs                                                *)
(***************************************************************************)
REQUIRED_FIELDS ==
    <<S_TX_ID, S_TX_TYPE, S_FROM_USER_ID, S_TO_USER_ID, S_AMOUNT,
      S_TIMESTAMP, S_STATUS, S_DESCRIPTION>>

\* utils::parse_quoted_field
parse_quoted_field(str) ==
    LET s == trim(str)
    IN  IF Len(s) >= 2 /\ s[1] = "\"" /\ s[Len(s)] = "\""
        THEN SubSeq(s, 2, Len(s) - 1) ELSE s

\* utils::wrap_with_quotes
wrap_with_quotes(s) == <<"\"">> \o s \o <<"\"">>

\* TxWrapper::new: parsed_fields, a map from key to value, empty
TxWrapper_new == <<>>

\* HashMap::insert
Insert(m, k, v) == [x \in DOMAIN m \cup {k} |-> IF x = k THEN v ELSE m[x]]

\* TxWrapper::from_tx
from_tx(tx) ==
    [k \in {REQUIRED_FIELDS[i] : i \in 1..8} |->
        CASE k = S_TX_ID -> u64_to_string(tx.id)
          [] k = S_TX_TYPE -> TxType_to_string(tx.type)
          [] k = S_FROM_USER_ID -> u64_to_string(tx.from_user)
          [] k = S_TO_USER_ID -> u64_to_string(tx.to_user)
          [] k = S_AMOUNT -> u64_to_string(tx.amount)
          [] k = S_TIMESTAMP -> u64_to_string(tx.timestamp)
          [] k = S_STATUS -> TxStatus_to_string(tx.status)
          [] k = S_DESCRIPTION -> tx.description]

\* TxWrapper::apply_field without the contains_key test: the later value wins
apply_field_Overwrite(fields, name, value) ==
    [kind |-> "Ok", fields |-> Insert(fields, name, value)]

\* TxWrapper::apply_field
apply_field(fields, name, value) ==
    IF name \in DOMAIN fields
    THEN InvalidFormatWith("duplicate field ", name)
    ELSE [kind |-> "Ok", fields |-> Insert(fields, name, value)]

\* impl Validator for TxWrapper
is_valid(fields) == \A i \in 1..Len(REQUIRED_FIELDS) : REQUIRED_FIELDS[i] \in DOMAIN fields

\* TxWrapper::build (called on valid wrappers only: the index would panic)
build(fields) ==
    LET id == ParseU64(fields[S_TX_ID])
        type == TxType_from_str(fields[S_TX_TYPE])
        from_user == ParseU64(fields[S_FROM_USER_ID])
        to_user == ParseU64(fields[S_TO_USER_ID])
        amount == ParseU64(fields[S_AMOUNT])
        timestamp == ParseU64(fields[S_TIMESTAMP])
        status == TxStatus_from_str(fields[S_STATUS])
    IN  IF ~id.ok THEN InvalidFormat(id.msg)
        ELSE IF ~type.ok THEN InvalidFormat(type.msg)
        ELSE IF ~from_user.ok THEN InvalidFormat(from_user.msg)
        ELSE IF ~to_user.ok THEN InvalidFormat(to_user.msg)
        ELSE IF ~amount.ok THEN InvalidFormat(amount.msg)
        ELSE IF ~timestamp.ok THEN InvalidFormat(timestamp.msg)
        ELSE IF ~status.ok THEN InvalidFormat(status.msg)
        ELSE [kind |-> "Ok",
              tx |-> Transaction(id.val, type.val, from_user.val, to_user.val,
                                 amount.val, timestamp.val, status.val,
                                 parse_quoted_field(fields[S_DESCRIPTION]))]

\* dump_txw_as_text (from_tx fills every required field)
dump_txw_as_text(txw) ==
    Concat([i \in 1..Len(REQUIRED_FIELDS) |->
        LET s == REQUIRED_FIELDS[i]
        IN  s \o <<":", " ">>
              \o (IF s = S_DESCRIPTION THEN wrap_with_quotes(txw[s]) ELSE txw[s])
              \o <<"\n">>])

\* dump_as_text writing the blank line after every record, the last included
dump_as_text_BlankAfterEach(txs) ==
    Concat([i \in 1..Len(txs) |-> dump_txw_as_text(from_tx(txs[i])) \o <<"\n">>])

dump_as_text(txs) ==
    Concat([i \in 1..Len(txs) |->
        dump_txw_as_text(from_tx(txs[i]))
          \o (IF i < Len(txs) THEN <<"\n">> ELSE <<>>)])

\* dump_as_text into a buffer, then the buffer becomes the source
DumpAsText ==
    /\ pc = "dump"
    /\ input' = dump_as_text(transactions)
    /\ reader' = input'
    /\ pc' = "text_lines"
    /\ UNCHANGED <<transactions, header, current_tx, result, ret, overflow_checks>>

\* parse_lines: one turn of `for line in lines`
ParseLine ==
    /\ pc = "text_lines"
    /\ reader # <<>>
    /\ LET nl == NextLine(reader)
           l == trim(nl.line)
           split == Split(l, ":")
           parts == [i \in 1..Len(split) |-> trim(split[i])]
           b == build(current_tx)
           a == apply_field(current_tx, parts[1], parts[2])
       IN  /\ reader' = nl.rest
           /\ IF l = <<>>
              THEN IF ~is_valid(current_tx)
                   THEN /\ current_tx' = TxWrapper_new
                        /\ UNCHANGED <<result, ret, pc>>
                   ELSE IF b.kind = "Ok"
                   THEN /\ result' = Append(result, b.tx)
                        /\ UNCHANGED <<current_tx, ret, pc>>
                   ELSE /\ ret' = b
                        /\ pc' = "done"
                        /\ UNCHANGED <<current_tx, result>>
              ELSE IF Len(parts) # 2
              THEN /\ ret' = InvalidFormat("invalid field format")
                   /\ pc' = "done"
                   /\ UNCHANGED <<current_tx, result>>
              ELSE IF a.kind = "Ok"
              THEN /\ current_tx' = a.fields
                   /\ UNCHANGED <<result, ret, pc>>
              ELSE /\ ret' = a
                   /\ pc' = "done"
                   /\ UNCHANGED <<current_tx, result>>
    /\ UNCHANGED <<transactions, input, header, overflow_checks>>

\* parse_lines after the loop
ParseLinesEnd ==
    /\ pc = "text_lines"
    /\ reader = <<>>
    /\ LET b == build(current_tx)
       IN  IF ~is_valid(current_tx)
           THEN ret' = Ok /\ result' = result
           ELSE IF b.kind = "Ok"
           THEN ret' = Ok /\ result' = Append(result, b.tx)
           ELSE ret' = b /\ result' = result
    /\ pc' = "done"
    /\ UNCHANGED <<transactions, input, reader, header, current_tx, overflow_checks>>

(***************************************************************************)
(* Inputs of the text codec                                                *)
(***************************************************************************)
MaxBlocks == 3     \* most pieces (blocks, blank lines) in a hand-made text

TextTxs ==
    { Transaction(1001, "Deposit", 0, 501, 50000, 7, "Success", d) :
        d \in {<<>>, <<"a">>, <<" ", "a", ",">>, <<"\"">>} }
    \cup { Transaction(1002, "Withdrawal", 501, 0, 25, 8, "Failure", <<"b">>) }

\* a complete record block
BLOCK_A ==
    <<"T", "X", "_", "I", "D", ":", " ", "1", "0", "0", "1", "\n", "T",
      "X", "_", "T", "Y", "P", "E", ":", " ", "D", "E", "P", "O", "S", "I",
      "T", "\n", "F", "R", "O", "M", "_", "U", "S", "E", "R", "_", "I",
      "D", ":", " ", "0", "\n", "T", "O", "_", "U", "S", "E", "R", "_",
      "I", "D", ":", " ", "5", "0", "1", "\n", "A", "M", "O", "U", "N",
      "T", ":", " ", "5", "0", "0", "0", "0", "\n", "T", "I", "M", "E",
      "S", "T", "A", "M", "P", ":", " ", "7", "\n", "S", "T", "A", "T",
      "U", "S", ":", " ", "S", "U", "C", "C", "E", "S", "S", "\n", "D",
      "E", "S", "C", "R", "I", "P", "T", "I", "O", "N", ":", " ", "\"",
      "a", "\"", "\n">>

\* a complete record block, keys in another order
BLOCK_B ==
    <<"D", "E", "S", "C", "R", "I", "P", "T", "I", "O", "N", ":", " ",
      "\"", "b", "\"", "\n", "S", "T", "A", "T", "U", "S", ":", " ", "F",
      "A", "I", "L", "U", "R", "E", "\n", "T", "I", "M", "E", "S", "T",
      "A", "M", "P", ":", " ", "8", "\n", "A", "M", "O", "U", "N", "T",
      ":", " ", "2", "5", "\n", "T", "O", "_", "U", "S", "E", "R", "_",
      "I", "D", ":", " ", "0", "\n", "F", "R", "O", "M", "_", "U", "S",
      "E", "R", "_", "I", "D", ":", " ", "5", "0", "1", "\n", "T", "X",
      "_", "T", "Y", "P", "E", ":", " ", "W", "I", "T", "H", "D", "R", "A",
      "W", "A", "L", "\n", "T", "X", "_", "I", "D", ":", " ", "1", "0",
      "0", "2", "\n">>

\* BLOCK_A and a second STATUS line
BLOCK_A_DUP ==
    <<"T", "X", "_", "I", "D", ":", " ", "1", "0", "0", "1", "\n", "T",
      "X", "_", "T", "Y", "P", "E", ":", " ", "D", "E", "P", "O", "S", "I",
      "T", "\n", "F", "R", "O", "M", "_", "U", "S", "E", "R", "_", "I",
      "D", ":", " ", "0", "\n", "T", "O", "_", "U", "S", "E", "R", "_",
      "I", "D", ":", " ", "5", "0", "1", "\n", "A", "M", "O", "U", "N",
      "T", ":", " ", "5", "0", "0", "0", "0", "\n", "T", "I", "M", "E",
      "S", "T", "A", "M", "P", ":", " ", "7", "\n", "S", "T", "A", "T",
      "U", "S", ":", " ", "S", "U", "C", "C", "E", "S", "S", "\n", "D",
      "E", "S", "C", "R", "I", "P", "T", "I", "O", "N", ":", " ", "\"",
      "a", "\"", "\n", "S", "T", "A", "T", "U", "S", ":", " ", "F", "A",
      "I", "L", "U", "R", "E", "\n">>

\* BLOCK_A and a line with the key FOO
BLOCK_A_FOO ==
    <<"T", "X", "_", "I", "D", ":", " ", "1", "0", "0", "1", "\n", "T",
      "X", "_", "T", "Y", "P", "E", ":", " ", "D", "E", "P", "O", "S", "I",
      "T", "\n", "F", "R", "O", "M", "_", "U", "S", "E", "R", "_", "I",
      "D", ":", " ", "0", "\n", "F", "O", "O", ":", " ", "1", "\n", "T",
      "O", "_", "U", "S", "E", "R", "_", "I", "D", ":", " ", "5", "0", "1",
      "\n", "A", "M", "O", "U", "N", "T", ":", " ", "5", "0", "0", "0",
      "0", "\n", "T", "I", "M", "E", "S", "T", "A", "M", "P", ":", " ",
      "7", "\n", "S", "T", "A", "T", "U", "S", ":", " ", "S", "U", "C",
      "C", "E", "S", "S", "\n", "D", "E", "S", "C", "R", "I", "P", "T",
      "I", "O", "N", ":", " ", "\"", "a", "\"", "\n">>

\* BLOCK_A with the description a:b
BLOCK_A_COLON ==
    <<"T", "X", "_", "I", "D", ":", " ", "1", "0", "0", "1", "\n", "T",
      "X", "_", "T", "Y", "P", "E", ":", " ", "D", "E", "P", "O", "S", "I",
      "T", "\n", "F", "R", "O", "M", "_", "U", "S", "E", "R", "_", "I",
      "D", ":", " ", "0", "\n", "T", "O", "_", "U", "S", "E", "R", "_",
      "I", "D", ":", " ", "5", "0", "1", "\n", "A", "M", "O", "U", "N",
      "T", ":", " ", "5", "0", "0", "0", "0", "\n", "T", "I", "M", "E",
      "S", "T", "A", "M", "P", ":", " ", "7", "\n", "S", "T", "A", "T",
      "U", "S", ":", " ", "S", "U", "C", "C", "E", "S", "S", "\n", "D",
      "E", "S", "C", "R", "I", "P", "T", "I", "O", "N", ":", " ", "\"",
      "a", ":", "b", "\"", "\n">>

\* two of the eight keys
PART ==
    <<"T", "X", "_", "I", "D", ":", " ", "1", "0", "0", "1", "\n", "T",
      "X", "_", "T", "Y", "P", "E", ":", " ", "D", "E", "P", "O", "S", "I",
      "T", "\n">>

\* the same key twice, the second padded with spaces
PART_DUP ==
    <<"A", "M", "O", "U", "N", "T", ":", " ", "1", "\n", " ", "A", "M",
      "O", "U", "N", "T", " ", ":", " ", "2", "\n">>

\* a line without a colon
NOCOLON ==
    <<"a", "\n">>

\* BLOCK_A with the type name in lower case
BLOCK_BADTYPE ==
    <<"T", "X", "_", "I", "D", ":", " ", "1", "0", "0", "1", "\n", "T",
      "X", "_", "T", "Y", "P", "E", ":", " ", "d", "e", "p", "o", "s", "i",
      "t", "\n", "F", "R", "O", "M", "_", "U", "S", "E", "R", "_", "I",
      "D", ":", " ", "0", "\n", "T", "O", "_", "U", "S", "E", "R", "_",
      "I", "D", ":", " ", "5", "0", "1", "\n", "A", "M", "O", "U", "N",
      "T", ":", " ", "5", "0", "0", "0", "0", "\n", "T", "I", "M", "E",
      "S", "T", "A", "M", "P", ":", " ", "7", "\n", "S", "T", "A", "T",
      "U", "S", ":", " ", "S", "U", "C", "C", "E", "S", "S", "\n", "D",
      "E", "S", "C", "R", "I", "P", "T", "I", "O", "N", ":", " ", "\"",
      "a", "\"", "\n">>

\* BLOCK_A with a status name that is none of the three
BLOCK_BADSTATUS ==
    <<"T", "X", "_", "I", "D", ":", " ", "1", "0", "0", "1", "\n", "T",
      "X", "_", "T", "Y", "P", "E", ":", " ", "D", "E", "P", "O", "S", "I",
      "T", "\n", "F", "R", "O", "M", "_", "U", "S", "E", "R", "_", "I",
      "D", ":", " ", "0", "\n", "T", "O", "_", "U", "S", "E", "R", "_",
      "I", "D", ":", " ", "5", "0", "1", "\n", "A", "M", "O", "U", "N",
      "T", ":", " ", "5", "0", "0", "0", "0", "\n", "T", "I", "M", "E",
      "S", "T", "A", "M", "P", ":", " ", "7", "\n", "S", "T", "A", "T",
      "U", "S", ":", " ", "D", "O", "N", "E", "\n", "D", "E", "S", "C",
      "R", "I", "P", "T", "I", "O", "N", ":", " ", "\"", "a", "\"", "\n">>

TextPieces ==
    { BLOCK_A, BLOCK_B, BLOCK_A_DUP, BLOCK_A_FOO, BLOCK_A_COLON,
      PART, PART_DUP, NOCOLON, <<"\n">>, <<" ", "\n">> }

\* pieces one after the other; a single piece also without its last newline
TextSources ==
    { Concat(ps) : ps \in SeqsUpTo(TextPieces, MaxBlocks) }
    \cup { Take(p, Len(p) - 1) : p \in TextPieces }
    \cup { BLOCK_BADTYPE, BLOCK_BADSTATUS }

InitText ==
    /\ overflow_checks = FALSE
    /\ header = <<>>
    /\ current_tx = TxWrapper_new
    /\ result = <<>>
    /\ ret = NoRet
    /\ \/ /\ transactions \in SeqsUpTo(TextTxs, MaxTxs)
          /\ input = <<>>
          /\ reader = <<>>
          /\ pc = "dump"
       \/ /\ transactions = <<>>
          /\ input \in TextSources
          /\ reader = input
          /\ pc = "text_lines"

NextText == DumpAsText \/ ParseLine \/ ParseLinesEnd

SpecText == InitText /\ [][NextText]_vars

(***************************************************************************)
(* Claims about the text codec                                             *)
(***************************************************************************)

\* C3 (as claimed): parse_from_text of the text of dump_as_text(T) returns
\* Ok with a list equal to T, for lists of any length.
C3_TextRoundTrip ==
    (pc = "done" /\ input = dump_as_text(transactions))
        => (ret = Ok /\ result = transactions)

\* the lines of a text, as BufRead::lines yields them
RECURSIVE AllLines(_)
AllLines(text) ==
    IF text = <<>> THEN <<>>
    ELSE <<NextLine(text).line>> \o AllLines(NextLine(text).rest)

IsBlank(l) == trim(l) = <<>>

\* the key of a line: what stands before its first colon, trimmed
KeyOf(l) == trim(Split(trim(l), ":")[1])

\* lines i..j lie in one record block: none of them is blank
SameBlock(ls, i, j) == \A k \in i..j : ~IsBlank(ls[k])

\* lines i..j are a whole record block
IsBlock(ls, i, j) ==
    /\ i <= j
    /\ SameBlock(ls, i, j)
    /\ i = 1 \/ IsBlank(ls[i - 1])
    /\ j = Len(ls) \/ IsBlank(ls[j + 1])

HasDuplicateKey(ls) ==
    \E i, j \in 1..Len(ls) :
        i < j /\ SameBlock(ls, i, j) /\ KeyOf(ls[i]) = KeyOf(ls[j])

RequiredKeys == {REQUIRED_FIELDS[i] : i \in 1..Len(REQUIRED_FIELDS)}

HasUnknownKey(ls) ==
    \E i \in 1..Len(ls) : ~IsBlank(ls[i]) /\ KeyOf(ls[i]) \notin RequiredKeys

HasIncompleteBlock(ls) ==
    \E i, j \in 1..Len(ls) :
        /\ IsBlock(ls, i, j)
        /\ ~(RequiredKeys \subseteq {KeyOf(ls[k]) : k \in i..j})

\* C8: a source in which some record block holds the same key twice makes
\* parse_from_text return InvalidFormat, never a record list; the line that
\* repeats a key already collected is answered with 'duplicate field', and
\* a value once collected is never replaced by another.
C8_DuplicateKey ==
    /\ []((pc = "done" /\ HasDuplicateKey(AllLines(input)))
            => ret.kind = "InvalidFormat")
    /\ [][/\ \A k \in DOMAIN current_tx :
                k \in DOMAIN current_tx' => current_tx'[k] = current_tx[k]
          /\ (/\ pc = "text_lines"
              /\ reader # <<>>
              /\ Len(Split(trim(NextLine(reader).line), ":")) = 2
              /\ KeyOf(NextLine(reader).line) \in DOMAIN current_tx)
               => /\ pc' = "done"
                  /\ ret' = InvalidFormatWith("duplicate field ",
                                            KeyOf(NextLine(reader).line))
                  /\ current_tx' = current_tx]_vars

\* the second STATUS line of a block was refused, the first value is kept
C8_Witness ==
    /\ pc = "done"
    /\ HasDuplicateKey(AllLines(input))
    /\ ret = InvalidFormatWith("duplicate field ", S_STATUS)
    /\ current_tx[S_STATUS] = S_SUCCESS

\* C9 (as claimed): a source with a line whose key is not one of the eight
\* recognized keys never makes parse_from_text return Ok.
C9_UnknownKey ==
    (pc = "done" /\ HasUnknownKey(AllLines(input))) => ret.kind # "Ok"

\* C10 (as claimed): a source with a record block that lacks one of the
\* eight required keys never makes parse_from_text return Ok.
C10_IncompleteRecord ==
    (pc = "done" /\ HasIncompleteBlock(AllLines(input))) => ret.kind # "Ok"

\* the record blocks of a list of lines: the runs of lines between blank
\* lines (an empty run where two blank lines meet or the list ends blank)
RECURSIVE BlocksOf(_)
BlocksOf(ls) ==
    IF ls = <<>> THEN << <<>> >>
    ELSE LET r == BlocksOf(Tail(ls))
         IN  IF IsBlank(Head(ls)) THEN << <<>> >> \o r
             ELSE << <<Head(ls)>> \o Head(r) >> \o Tail(r)

\* a block of eight `KEY: value` lines, one for each required key
IsCompleteBlock(b) ==
    /\ Len(b) = 8
    /\ \A i \in 1..Len(b) : Len(Split(trim(b[i]), ":")) = 2
    /\ {KeyOf(b[i]) : i \in 1..Len(b)} = RequiredKeys

\* the value a complete block gives to a key
BlockValue(b, key) ==
    LET i == CHOOSE i \in 1..Len(b) : KeyOf(b[i]) = key
    IN  trim(Split(trim(b[i]), ":")[2])

\* C11 (as claimed): a source of k >= 2 complete record blocks separated by
\* single blank lines is decoded to Ok with exactly k records, the i-th
\* record carrying the id and the description of the i-th block.
C11_RecordSeparation ==
    LET bs == BlocksOf(AllLines(input))
    IN  (/\ pc = "done"
         /\ Len(bs) >= 2
         /\ \A i \in 1..Len(bs) : IsCompleteBlock(bs[i]))
          => /\ ret = Ok
             /\ Len(result) = Len(bs)
             /\ \A i \in 1..Len(bs) :
                  /\ u64_to_string(result[i].id) = BlockValue(bs[i], S_TX_ID)
                  /\ result[i].description
                       = parse_quoted_field(BlockValue(bs[i], S_DESCRIPTION))

\* C20 (as claimed): a non-blank line with at least one colon is split at
\* its first colon: unless its key was already collected, the key (what
\* stands before the first colon) gets the whole trimmed remainder as its
\* value, colons included, and the call goes on; 'invalid field format'
\* answers only a line without a colon.
C20_FirstColonSplit ==
    [][LET l == trim(NextLine(reader).line)
           n == IndexOf(l, ":", 1)
       IN  (pc = "text_lines" /\ reader # <<>> /\ l # <<>>)
             => /\ (n # 0 /\ trim(Take(l, n - 1)) \notin DOMAIN current_tx)
                     => /\ pc' = "text_lines"
                        /\ current_tx'
                             = Insert(current_tx, trim(Take(l, n - 1)),
                                      trim(Drop(l, n)))
                /\ ret' = InvalidFormat("invalid field format") => n = 0]_vars

(***************************************************************************)
(* The three decoders side by side: parse_from_bin, parse_from_csv and     *)
(* parse_from_text, each on the sources of its codec                       *)
(***************************************************************************)
InitParse ==
    \/ InitBin /\ pc = "header"
    \/ InitCsv /\ pc = "csv_header"
    \/ InitText /\ pc = "text_lines"

NextParse ==
    \/ HeaderRead \/ ReadRecord
    \/ ParseHeader \/ ParseTransactions
    \/ ParseLine \/ ParseLinesEnd

SpecParse == InitParse /\ [][NextParse]_vars

\* C16: no record of the list a decoder builds (and so of the list it
\* returns) has the kind Unknown or the status Unknown, and the list does
\* not grow in the step that meets an unknown code or name.
C16_NoUnknownVariant ==
    /\ [](\A i \in 1..Len(result) :
            result[i].type \in Kinds /\ result[i].status \in Statuses)
    /\ [][(/\ pc' = "done"
           /\ ret' \in {IOError("Invalid TxType"), IOError("unexpected TxType"),
                        InvalidFormat("unknown tx type"),
                        InvalidFormat("unknown tx status")})
             => result' = result]_vars

\* a record with kind_code 3 after a valid one (binary source, debug
\* build): refused, nothing coerced
C16_Witness ==
    /\ pc = "done"
    /\ overflow_checks
    /\ input = GoodWire(0, 0, <<>>) \o GoodWire(3, 0, <<97>>)
    /\ ret = IOError("Invalid TxType")
    /\ Len(result) = 1

\* the text block with the type name `deposit`
C16_WitnessText ==
    /\ pc = "done"
    /\ input = BLOCK_BADTYPE
    /\ ret = InvalidFormat("unknown tx type")
    /\ result = <<>>

\* the CSV line with an unknown type name
C16_WitnessCsv ==
    /\ pc = "done"
    /\ ret = InvalidFormat("unknown tx type")
    /\ header = EXPECTED_HEADER

(***************************************************************************)
(* dump_as_csv alone                                                       *)
(***************************************************************************)
\* transactions for the lists of several records
CsvDumpTxs ==
    { Transaction(1001, "Deposit", 0, 501, 50000, 7, "Success", d) :
        d \in { <<>>, <<"a">>, <<"\"">>, <<"\"", "\"">>, <<"a", ",", "b">>,
                <<" ", "a", " ">>, <<"a", "\"", ",", "\"", "b">> } }
    \cup { Transaction(1002, "Withdrawal", 501, 0, 25, 8, "Failure", <<"a">>) }

\* every short description alone, the picked ones in lists
InitCsvDump ==
    /\ overflow_checks = FALSE
    /\ header = <<>>
    /\ current_tx = <<>>
    /\ result = <<>>
    /\ ret = NoRet
    /\ transactions \in { <<t>> : t \in CsvTxs } \cup SeqsUpTo(CsvDumpTxs, MaxTxs)
    /\ input = <<>>
    /\ reader = <<>>
    /\ pc = "dump"

NextCsvDump == DumpAsCsv

SpecCsvDump == InitCsvDump /\ [][NextCsvDump]_vars

\* the text between the quotes read back: every pair of quotes is one
\* quote; a quote that stands alone makes the text ill-formed
RECURSIVE Undouble(_)
Undouble(body) ==
    IF body = <<>> THEN [ok |-> TRUE, text |-> <<>>]
    ELSE IF Head(body) # "\""
    THEN LET r == Undouble(Tail(body))
         IN  [ok |-> r.ok, text |-> <<Head(body)>> \o r.text]
    ELSE IF Len(body) >= 2 /\ body[2] = "\""
    THEN LET r == Undouble(Tail(Tail(body)))
         IN  [ok |-> r.ok, text |-> <<"\"">> \o r.text]
    ELSE [ok |-> FALSE, text |-> <<>>]

\* the first seven fields of the line of a transaction of the model
SevenFields(tx) ==
    IF tx.id = 1001 THEN LINE_7
    ELSE <<"1", "0", "0", "2", ",", "W", "I", "T", "H", "D", "R", "A", "W",
           "A", "L", ",", "5", "0", "1", ",", "0", ",", "2", "5", ",", "8",
           ",", "F", "A", "I", "L", "U", "R", "E">>

\* C21: what dump_as_csv writes is the header line and then, for each
\* transaction in list order, one newline-terminated line: the first seven
\* fields, a comma, and the description between one pair of double quotes
\* with each of its quotes doubled, whatever the description holds.
C21_CsvLayout ==
    [][pc = "dump" =>
         LET ls == AllLines(input')
             n == Len(transactions)
         IN  /\ input' # <<>> /\ input'[Len(input')] = "\n"
             /\ Len(ls) = n + 1
             /\ ls[1] = <<"T", "X", "_", "I", "D", ",", "T", "X", "_", "T",
                          "Y", "P", "E", ",", "F", "R", "O", "M", "_", "U",
                          "S", "E", "R", "_", "I", "D", ",", "T", "O", "_",
                          "U", "S", "E", "R", "_", "I", "D", ",", "A", "M",
                          "O", "U", "N", "T", ",", "T", "I", "M", "E", "S",
                          "T", "A", "M", "P", ",", "S", "T", "A", "T", "U",
                          "S", ",", "D", "E", "S", "C", "R", "I", "P", "T",
                          "I", "O", "N">>
             /\ \A i \in 1..n :
                  LET l == ls[i + 1]
                      p == SevenFields(transactions[i]) \o <<",", "\"">>
                      body == SubSeq(l, Len(p) + 1, Len(l) - 1)
                  IN  /\ Len(l) >= Len(p) + 1
                      /\ Take(l, Len(p)) = p
                      /\ l[Len(l)] = "\""
                      /\ Undouble(body)
                           = [ok |-> TRUE, text |-> transactions[i].description]
      ]_vars

\* two records were written, the second with quotes and a comma in its
\* description, the first with none
C21_Witness ==
    /\ pc = "csv_header"
    /\ Len(transactions) = 2
    /\ transactions[1].description = <<"a">>
    /\ transactions[2].description = <<"a", "\"", ",", "\"", "b">>
    /\ input = dump_as_csv(transactions)

(***************************************************************************)
(* C23: the layout of the text encoder's output                            *)
(***************************************************************************)
\* the newline-terminated lines of a text, in order
TerminatedLines(text) ==
    LET nl == { p \in 1..Len(text) : text[p] = "\n" }
        before(p) == { q \in nl : q < p }
    IN  [k \in 1..Cardinality(nl) |->
           LET p == CHOOSE q \in nl : Cardinality(before(q)) = k - 1
               start == IF before(p) = {} THEN 1
                        ELSE 1 + CHOOSE q \in before(p) : \A r \in before(p) : r <= q
           IN  SubSeq(text, start, p - 1)]

RECURSIVE Decimal(_)
Decimal(n) ==
    IF n < 10 THEN <<(<<"0", "1", "2", "3", "4", "5", "6", "7", "8", "9">>)[n + 1]>>
    ELSE Decimal(n \div 10) \o Decimal(n % 10)

\* the eight lines of one record, in the order of the claim
EightLines(tx) ==
    << <<"T", "X", "_", "I", "D">> \o <<":", " ">> \o Decimal(tx.id),
       <<"T", "X", "_", "T", "Y", "P", "E">> \o <<":", " ">> \o TxType_to_string(tx.type),
       <<"F", "R", "O", "M", "_", "U", "S", "E", "R", "_", "I", "D">> \o <<":", " ">> \o Decimal(tx.from_user),
       <<"T", "O", "_", "U", "S", "E", "R", "_", "I", "D">> \o <<":", " ">> \o Decimal(tx.to_user),
       <<"A", "M", "O", "U", "N", "T">> \o <<":", " ">> \o Decimal(tx.amount),
       <<"T", "I", "M", "E", "S", "T", "A", "M", "P">> \o <<":", " ">> \o Decimal(tx.timestamp),
       <<"S", "T", "A", "T", "U", "S">> \o <<":", " ">> \o TxStatus_to_string(tx.status),
       <<"D", "E", "S", "C", "R", "I", "P", "T", "I", "O", "N">> \o <<":", " ", "\"">> \o tx.description \o <<"\"">> >>

\* C23: dump_as_text writes, for each transaction in list order, the eight
\* lines TX_ID, TX_TYPE, FROM_USER_ID, TO_USER_ID, AMOUNT, TIMESTAMP, STATUS,
\* DESCRIPTION as KEY: value, the description inside one pair of quotes with
\* nothing escaped, exactly one blank line between two records and none
\* after the last.
C23_TextLayout ==
    [][pc = "dump" =>
         LET lines == TerminatedLines(input')
             n == Len(transactions)
         IN  /\ input' = <<>> \/ input'[Len(input')] = "\n"
             /\ Len(lines) = (IF n = 0 THEN 0 ELSE 9 * n - 1)
             /\ \A i \in 1..n :
                  /\ SubSeq(lines, 9 * i - 8, 9 * i - 1) = EightLines(transactions[i])
                  /\ i < n => lines[9 * i] = <<>>
      ]_vars

\* two records were written, the first with a quote as its description
C23_Witness ==
    /\ pc = "text_lines"
    /\ Len(transactions) = 2
    /\ transactions[1].description = <<"\"">>
    /\ transactions[2].description = <<"b">>
    /\ input = reader
    /\ Len(TerminatedLines(input)) = 17

\* C24 (as claimed): blank and whitespace-only lines before or after the one
\* complete block of a source add no record: with them as without them, a
\* source whose block is BLOCK_A or BLOCK_B is decoded to Ok with exactly
\* one record.
C24_BlankLinesNoDuplicate ==
    LET ls == AllLines(input)
        nb == SelectSeq(ls, LAMBDA l : trim(l) # <<>>)
    IN  (/\ pc = "done"
         /\ nb \in {AllLines(BLOCK_A), AllLines(BLOCK_B)}
         /\ \E k \in 1..Len(ls) : SubSeq(ls, k, k + 7) = nb)
          => /\ ret = Ok
             /\ Len(result) = 1
             /\ u64_to_string(result[1].id) = BlockValue(nb, S_TX_ID)

\* C25 (as claimed): for a source of the header and one data line whose
\* eighth field is quoted, the decoded description is the text between the
\* quotes with every doubled quote read as one quote, spaces at its ends
\* included.
C25_DescriptionVerbatim ==
    LET ls == AllLines(input)
        l == ls[2]
        k == Len(LINE_7)
        body == SubSeq(l, k + 3, Len(l) - 1)
    IN  (/\ pc = "done"
         /\ Len(ls) = 2
         /\ ls[1] = Join(EXPECTED_HEADER, <<",">>)
         /\ Len(l) >= k + 3
         /\ Take(l, k + 2) = LINE_7 \o <<",", "\"">>
         /\ l[Len(l)] = "\""
         /\ Undouble(body).ok)
          => /\ ret = Ok
             /\ Len(result) = 1
             /\ result[1].description = Undouble(body).text

(***************************************************************************)
(* bin/ypbank_converter/main.rs: run and the exit code of the process      *)
(***************************************************************************)
\* the format names a command line may carry; "xml" stands for every name
\* that parse_format does not know
FormatNames == {"text", "csv", "bin", "xml"}

\* parse_format
parse_format(f) ==
    IF f \in {"text", "csv", "bin"} THEN [kind |-> "Ok", type |-> f]
    ELSE [kind |-> "Usage"]

\* impl From<error::ParseError> for Error: both variants become Error::Parse
Error_from_ParseError(e) == [kind |-> "Parse"]

\* impl From<error::DumpError> for Error
Error_from_DumpError(e) == [kind |-> "Dump"]

\* Error::code
Error_code(e) ==
    CASE e.kind = "Parse" -> 1
      [] e.kind = "Dump" -> 2
      [] e.kind = "Usage" -> 3
      [] e.kind = "IO" -> 4

\* main: std::process::exit(e.code()) for Err(e), the normal end for Ok
exit_code(r) == IF r.kind = "Ok" THEN 0 ELSE Error_code(r)

\* parse_tx on the outcome of the decoder it called: `?` converts the error
parse_tx(r) == IF r.kind = "Ok" THEN Ok ELSE Error_from_ParseError(r)

InitConverter ==
    /\ overflow_checks \in BOOLEAN
    /\ transactions = <<>>
    /\ input = <<>>
    /\ reader = <<>>
    /\ header = <<>>
    /\ current_tx = <<>>
    /\ result = <<>>
    /\ ret = NoRet
    /\ pc = "run"

\* run up to the call of parse_tx: the file is opened, the two format names
\* are read, and the decoder of the input format starts on the file
RunStart ==
    /\ pc = "run"
    /\ \E opened \in BOOLEAN, input_format, output_format \in FormatNames :
         IF \/ ~opened
            \/ parse_format(input_format).kind # "Ok"
            \/ parse_format(output_format).kind # "Ok"
         THEN /\ ret' = [kind |-> "Usage"]
              /\ pc' = "exit"
              /\ UNCHANGED <<input, reader, header, current_tx>>
         ELSE /\ ret' = NoRet
              /\ \/ /\ parse_format(input_format).type = "bin"
                    /\ input' \in BinSources
                    /\ header' = U32(0)
                    /\ current_tx' = <<>>
                    /\ pc' = "header"
                 \/ /\ parse_format(input_format).type = "csv"
                    /\ input' \in CsvSources
                    /\ header' = <<>>
                    /\ current_tx' = <<>>
                    /\ pc' = "csv_header"
                 \/ /\ parse_format(input_format).type = "text"
                    /\ input' \in TextSources
                    /\ header' = <<>>
                    /\ current_tx' = TxWrapper_new
                    /\ pc' = "text_lines"
              /\ reader' = input'
    /\ UNCHANGED <<transactions, result, overflow_checks>>

\* run after parse_tx has returned: a failure is wrapped into Error::Usage,
\* a list is written to the standard output by dump_tx, whose write may fail
RunFinish ==
    /\ pc = "done"
    /\ IF parse_tx(ret).kind # "Ok"
       THEN ret' = [kind |-> "Usage"]
       ELSE \E written \in BOOLEAN :
              ret' = IF written THEN Ok ELSE Error_from_DumpError("OutputError")
    /\ pc' = "exit"
    /\ UNCHANGED <<transactions, input, reader, header, current_tx, result,
                   overflow_checks>>

NextConverter ==
    \/ RunStart
    \/ HeaderRead \/ ReadRecord
    \/ ParseHeader \/ ParseTransactions
    \/ ParseLine \/ ParseLinesEnd
    \/ RunFinish

SpecConverter == InitConverter /\ [][NextConverter]_vars

\* C26 (as claimed): when the decoder of the input file fails the process
\* ends with exit code 1; a failure of the encoder ends it with 2; a file
\* that cannot be opened or an unknown format name ends it with 3.
C26_ExitCodes ==
    [][/\ (pc = "done" /\ ret.kind \in {"InvalidFormat", "IOError"})
            => (pc' = "exit" /\ exit_code(ret') = 1)
       /\ (pc = "done" /\ ret.kind = "Ok" /\ ret'.kind # "Ok")
            => (pc' = "exit" /\ exit_code(ret') = 2)
       /\ pc = "run" /\ pc' = "exit" => exit_code(ret') = 3]_vars

(***************************************************************************)
(* bin/ypbank_comparer/main.rs: compare                                    *)
(***************************************************************************)
\* Option
None == [some |-> FALSE]
Some(v) == [some |-> TRUE, val |-> v]

\* <[T]>::get with the index of the source (from 0)
get(list, i) == IF i < Len(list) THEN Some(list[i + 1]) ELSE None

\* the loop of compare from index i on, over 0..n
RECURSIVE compare_loop(_, _, _, _)
compare_loop(lhs, rhs, i, n) ==
    IF i >= n THEN None
    ELSE LET l == get(lhs, i)
             r == get(rhs, i)
         IN  IF ~l.some \/ ~r.some \/ l.val # r.val
             THEN Some(<<i, l, r>>)
             ELSE compare_loop(lhs, rhs, i + 1, n)

\* compare walking only the indexes that both lists have
compare_CommonPrefix(lhs, rhs) ==
    compare_loop(lhs, rhs, 0,
                 IF Len(lhs) <= Len(rhs) THEN Len(lhs) ELSE Len(rhs))

\* compare
compare(lhs, rhs) ==
    compare_loop(lhs, rhs, 0,
                 IF Len(lhs) >= Len(rhs) THEN Len(lhs) ELSE Len(rhs))

\* the transactions of the two lists: each differs from the first in one field
CompareTxs ==
    { Transaction(1001, "Deposit", 0, 501, 50000, 7, "Success", <<"a">>),
      Transaction(1001, "Deposit", 0, 501, 50000, 7, "Success", <<>>),
      Transaction(1001, "Deposit", 0, 501, 50000, 7, "Failure", <<"a">>),
      Transaction(1002, "Deposit", 0, 501, 50000, 7, "Success", <<"a">>) }

\* the two decoded lists: transactions is lhs, result is rhs
InitCompare ==
    /\ overflow_checks = FALSE
    /\ transactions \in SeqsUpTo(CompareTxs, MaxTxs)
    /\ result \in SeqsUpTo(CompareTxs, MaxTxs)
    /\ input = <<>>
    /\ reader = <<>>
    /\ header = <<>>
    /\ current_tx = <<>>
    /\ ret = NoRet
    /\ pc = "compare"

Compare ==
    /\ pc = "compare"
    /\ ret' = compare(transactions, result)
    /\ pc' = "compared"
    /\ UNCHANGED <<transactions, input, reader, header, current_tx, result,
                   overflow_checks>>

NextCompare == Compare

SpecCompare == InitCompare /\ [][NextCompare]_vars

\* C27: compare returns None exactly when the two lists are equal; if they
\* are not, it returns the smallest index (from 0) at which the elements
\* differ or only one list has an element, with the two elements, the
\* absent one as None.
C27_CompareResult ==
    pc = "compared" =>
        LET lhs == transactions
            rhs == result
            longer == IF Len(lhs) >= Len(rhs) THEN Len(lhs) ELSE Len(rhs)
            differs == { i \in 0..(longer - 1) :
                           \/ (i < Len(lhs)) # (i < Len(rhs))
                           \/ /\ i < Len(lhs)
                              /\ i < Len(rhs)
                              /\ lhs[i + 1] # rhs[i + 1] }
        IN  /\ ~ret.some <=> lhs = rhs
            /\ lhs # rhs =>
                 LET first == CHOOSE i \in differs : \A j \in differs : i <= j
                 IN  /\ ret.some
                     /\ ret.val[1] = first
                     /\ ret.val[2] = (IF first < Len(lhs)
                                      THEN [some |-> TRUE, val |-> lhs[first + 1]]
                                      ELSE [some |-> FALSE])
                     /\ ret.val[3] = (IF first < Len(rhs)
                                      THEN [some |-> TRUE, val |-> rhs[first + 1]]
                                      ELSE [some |-> FALSE])

\* lhs is rhs and one more transaction: index 1, the element and None
C27_Witness ==
    /\ pc = "compared"
    /\ Len(transactions) = 2
    /\ Len(result) = 1
    /\ transactions[1] = result[1]
    /\ ret.some
    /\ ret.val[1] = 1
    /\ ~ret.val[3].some

\* two lists of two that differ in the description of the second element
C27_WitnessDiffers ==
    /\ pc = "compared"
    /\ Len(transactions) = 2
    /\ Len(result) = 2
    /\ transactions[1] = result[1]
    /\ transactions[2].description # result[2].description
    /\ ret.some
    /\ ret.val[1] = 1

\* two equal lists of two
C27_WitnessEqual ==
    /\ pc = "compared"
    /\ Len(transactions) = 2
    /\ transactions = result
    /\ ~ret.some

====
